---- MODULE Spec2Model ----
(***************************************************************************)
(* A model of the memic toolkit: the toolbox window (toolbox/ui.py), the   *)
(* command line dispatcher (cli/cli.py), the version-control helper        *)
(* (utility/version_control.py) and the reflective enumeration             *)
(* (utility/better_enum.py).                                               *)
(*                                                                         *)
(* The components run in different processes or are independent objects,   *)
(* so each has its own specification over its own variables:               *)
(*   SpecUI          the utterance history and the log buffer of the window*)
(*   SpecGit         one call of an operation of the version-control helper*)
(*   SpecCLI         one invocation of the command line dispatcher         *)
(*   SpecRecordName  the dataset browser and the record name of the window *)
(*   SpecProjection  the projection view of the window                     *)
(*   SpecExport      the export of a waveform to a file                    *)
(*   SpecModels      the model selectors of the window                     *)
(*   SpecPanel       the panels, buttons and progress bar, handler by      *)
(*                   handler                                               *)
(*   SpecEvents      the event loop: callbacks step by step                *)
(*   SpecEnum        the operations of an enumeration class                *)
(*   SpecNotice      the projection view drawn with few and many speakers  *)
(*   SpecAudio       the audio devices of the window                       *)
(*   SpecPlayback    playback of a waveform next to the panels             *)
(*   SpecLog         the log buffer under log calls, resets, recordings    *)
(*                   and playbacks                                         *)
(*   SpecBox         one selector of the window and its slot               *)
(*   SpecBrowser     the selectors of the dataset browser at every level   *)
(* Text that the code inspects character by character (command output,     *)
(* file names) is a sequence of one-character strings; text that is only   *)
(* stored or concatenated is a TLA+ string.                                *)
(***************************************************************************)
EXTENDS Integers, Sequences, FiniteSets, TLC

(***************************************************************************)
(* Bounds of the model.                                                    *)
(***************************************************************************)
\* how many utterances are registered in one behaviour
MaxRegistrations == 22
\* longest log line that append mode may build
MaxLineLen == 1
\* most lines in the body of a commit message
MaxBodyLines == 2
\* most arguments after the command on a command line
MaxArgs == 2
\* most recordings in the directory of a user
MaxRecordings == 10
\* how many handlers of the browser run in one behaviour
MaxHandlerCalls == 3
\* the numbers the random generator draws are below this
MaxDraw == 2
\* most utterances in the working set of the projection view
MaxUtterances == 16
\* most speakers of the utterances in the working set
MaxSpeakers == 15
\* how many handlers of the panels run in one behaviour
MaxPanelCalls == 2
\* most attributes in the body of an enumeration class
MaxMembers == 3
\* largest number of lines asked of a rendering
MaxLines == 4
\* how many handlers run in one behaviour of the panels taken together
MaxPanelSteps == 3
\* most events that wait to be delivered
MaxPending == 1
\* most devices the sound library lists
MaxDevices == 3
\* how often the browser is filled in one behaviour of the browser alone
MaxBrowserCalls == 2
\* how many handlers write to the log buffer in one behaviour of the buffer
MaxLogSteps == 2
\* most items a selector is filled with
MaxItems == 3

(***************************************************************************)
(* Program constants.                                                      *)
(***************************************************************************)
\* ui.py:57
max_log_lines == 5
\* ui.py:58
max_saved_utterances == 20
\* ui.py:497
user_name_max_length == 20
\* ui.py:512
record_name_max_length == 20

VARIABLES
    \* ---- toolbox window (ui.py, class UI) ----
    utterance_history,   \* items of the history combo box, index 0 first
    history_index,       \* its currentIndex(); -1 when the box is empty
    registered,          \* number of Utterance objects registered so far
    play_enabled,        \* play_button
    generate_enabled,    \* generate_button
    synthesize_enabled,  \* synthesize_button
    logs,                \* self.logs
    log_window,          \* text shown by the log label
    ui_call,             \* the handler that ran last, with its arguments
    ui_raised,           \* exception that escaped the last handler, or "none"
    \* ---- version control helper (version_control.py) ----
    git_op,              \* the operation called last
    git_calls,           \* the shell commands it issued, in order
    git_raised,          \* exception that escaped it, or "none"
    git_tag,             \* what git_latest_tag returned
    git_info,            \* what interpret_commit_log or git_config returned
    git_summary_value,   \* what git_summary returned
    git_log_input,       \* the text given to interpret_commit_log
    \* ---- command line dispatcher (cli.py) ----
    cli_done,            \* main() has run
    cli_argv,            \* sys.argv[1:] of the invocation
    cli_host,            \* what the invocation finds on the host
    cli_events,          \* what the invocation did, in order
    cli_raised,          \* exception that escaped main(), or "none"
    \* ---- dataset browser and record name of the window (ui.py) ----
    user_name_input,     \* text of the user name field
    record_name_input,   \* text of the record name field
    datasets_root,       \* self.datasets_root
    dataset_box,         \* the three combo boxes of the browser
    speaker_box,
    utterance_box,
    disabled_widgets,    \* the buttons and check boxes that are disabled
    stdout,              \* what the last handler printed
    stderr,              \* what it printed to the error stream
    fs,                  \* the files below the datasets root
    handler_calls,       \* how many handlers have run
    \* ---- panels, buttons and model boxes of the window (ui.py) ----
    umap_ax,             \* what the projection view shows
    umap_hot,            \* self.umap_hot
    panels,              \* what the embedding and spectrogram panels show
    vocode_enabled,      \* vocode_button
    replay_enabled,      \* replay_wav_button
    export_enabled,      \* export_wav_button
    loading_bar,         \* the progress bar
    record_button,       \* its text and whether it is disabled
    model_boxes,         \* encoder_box, synthesizer_box and vocoder_box
    disk,                \* the files save_audio_file has written
    returned,            \* what the last handler returned
    panel_calls,         \* how many handlers of the panels have run
    \* ---- reflective enumeration (better_enum.py) ----
    enum_cls,            \* the class the operation is called on
    enum_call,           \* the operation called last, with its arguments
    enum_result,         \* what it returned
    \* ---- event loop of the window (ui.py) ----
    call_stack,          \* the callbacks that have started and not returned
    pending_events,      \* what the operator did that is not delivered yet
    \* ---- audio devices (ui.py, sounddevice) ----
    sd_devices,          \* what sd.query_devices() listed
    audio_in_device,     \* self.audio_in_device
    audio_out_devices_cb, \* the selector of the output device
    sd_default_device,   \* sd.default.device
    sd_calls,            \* the calls of the sound library the last handler made
    sd_playing,          \* the waveform that is played, or "nothing"
    \* ---- one selector of the window and its slot (ui.py, Qt) ----
    combo_box,           \* a QComboBox
    slot_calls,          \* the calls of its slot the last operation caused
    box_call             \* the operation done last on it, with its arguments

gitVars == <<git_op, git_calls, git_raised, git_tag, git_info, git_summary_value,
             git_log_input>>

uiVars == <<utterance_history, history_index, registered, play_enabled,
            generate_enabled, synthesize_enabled, logs, log_window, ui_call,
            ui_raised>>

cliVars == <<cli_done, cli_argv, cli_host, cli_events, cli_raised>>

browserVars == <<user_name_input, record_name_input, datasets_root, dataset_box,
                 speaker_box, utterance_box, disabled_widgets, stdout, stderr, fs,
                 handler_calls>>

panelVars == <<umap_ax, umap_hot, panels, vocode_enabled, replay_enabled,
               export_enabled, loading_bar, record_button, model_boxes, disk,
               returned, panel_calls>>

enumVars == <<enum_cls, enum_call, enum_result>>

eventVars == <<call_stack, pending_events>>

audioVars == <<sd_devices, audio_in_device, audio_out_devices_cb, sd_default_device,
               sd_calls, sd_playing>>

boxVars == <<combo_box, slot_calls, box_call>>

historyVars == <<utterance_history, history_index, registered, play_enabled,
                 generate_enabled, synthesize_enabled>>

vars == <<uiVars, browserVars, panelVars, gitVars, cliVars, enumVars, eventVars, audioVars,
          boxVars>>

\* what the actions of one component leave alone
notUI == <<gitVars, cliVars, enumVars, eventVars, audioVars, boxVars>>
notWindow == <<gitVars, cliVars, enumVars, audioVars, boxVars>>
notAudio == <<gitVars, cliVars, enumVars, eventVars, boxVars>>
notGit == <<uiVars, browserVars, panelVars, cliVars, enumVars, eventVars, audioVars, boxVars>>
notCLI == <<uiVars, browserVars, panelVars, gitVars, enumVars, eventVars, audioVars, boxVars>>
notEnum == <<uiVars, browserVars, panelVars, gitVars, cliVars, eventVars, audioVars, boxVars>>
notBox == <<uiVars, browserVars, panelVars, gitVars, cliVars, enumVars, eventVars, audioVars>>

(***************************************************************************)
(* Helpers.                                                                *)
(***************************************************************************)
Min(a, b) == IF a < b THEN a ELSE b

\* the elements of a list
Range(s) == {s[i] : i \in 1..Len(s)}

\* list.insert(0, x) / QComboBox.insertItem(0, ...)
InsertFront(s, x) == <<x>> \o s

\* del s[i] / QComboBox.removeItem(i), i counted from 0; out of range is a no-op
RemoveAt(s, i) ==
    IF i < 0 \/ i >= Len(s) THEN s
    ELSE SubSeq(s, 1, i) \o SubSeq(s, i + 2, Len(s))

\* "\n".join(lines)
RECURSIVE JoinLines(_)
JoinLines(lines) ==
    IF lines = <<>> THEN ""
    ELSE IF Len(lines) = 1 THEN lines[1]
    ELSE lines[1] \o "\n" \o JoinLines(Tail(lines))


(***************************************************************************)
(* Python text operations, on sequences of one-character strings.          *)
(***************************************************************************)
Whitespace == {" ", "\n", "\t"}

\* the values False and None; no text equals them, a text holding only
\* one-character strings
PyFalse == <<"False">>
PyNone == <<"None">>

\* s.startswith(p)
StartsWith(s, p) == Len(p) <= Len(s) /\ SubSeq(s, 1, Len(p)) = p

\* s.endswith(p)
EndsWith(s, p) == Len(p) <= Len(s) /\ SubSeq(s, Len(s) - Len(p) + 1, Len(s)) = p

\* 1 + s.find(sep): the first place where sep occurs in s, 0 when nowhere
FindFirst(s, sep) ==
    LET hits == {i \in 1..(Len(s) - Len(sep) + 1) : SubSeq(s, i, i + Len(sep) - 1) = sep}
    IN  IF hits = {} THEN 0 ELSE CHOOSE i \in hits : \A j \in hits : i <= j

\* s.split(sep), sep not empty
RECURSIVE Split(_, _)
Split(s, sep) ==
    LET i == FindFirst(s, sep)
    IN  IF i = 0 THEN <<s>>
        ELSE <<SubSeq(s, 1, i - 1)>> \o Split(SubSeq(s, i + Len(sep), Len(s)), sep)

\* s.splitlines(), for text whose only line break is "\n"
SplitLines(s) ==
    LET pieces == Split(s, <<"\n">>)
    IN  IF pieces[Len(pieces)] = <<>> THEN SubSeq(pieces, 1, Len(pieces) - 1) ELSE pieces

\* s.lstrip(), s.rstrip(), s.strip()
RECURSIVE LStrip(_)
LStrip(s) == IF s # <<>> /\ s[1] \in Whitespace THEN LStrip(Tail(s)) ELSE s

RECURSIVE RStrip(_)
RStrip(s) ==
    IF s # <<>> /\ s[Len(s)] \in Whitespace THEN RStrip(SubSeq(s, 1, Len(s) - 1)) ELSE s

Strip(s) == RStrip(LStrip(s))

\* sep.join(parts)
RECURSIVE Join(_, _)
Join(parts, sep) ==
    IF parts = <<>> THEN <<>>
    ELSE IF Len(parts) = 1 THEN parts[1]
    ELSE parts[1] \o sep \o Join(Tail(parts), sep)

\* the text as a string: a command line that is only passed on
RECURSIVE ToStr(_)
ToStr(s) == IF s = <<>> THEN "" ELSE s[1] \o ToStr(Tail(s))

\* a value or the exception raised instead of it
Value(v) == [raised |-> "none", value |-> v]
Raised(exc) == [raised |-> exc, value |-> PyNone]

\* parts[k] with k counted from 0: IndexError when there is no such part
Item(parts, k) == IF k < Len(parts) THEN Value(parts[k + 1]) ELSE Raised("IndexError")

(***************************************************************************)
(* Python dictionaries, as sequences of <<key, value>> pairs in insertion  *)
(* order with no key twice.                                                *)
(***************************************************************************)
DictKeys(d) == [i \in 1..Len(d) |-> d[i][1]]

DictHas(d, k) == \E i \in 1..Len(d) : d[i][1] = k

\* d[k] = v
DictSet(d, k, v) ==
    IF DictHas(d, k)
    THEN [i \in 1..Len(d) |-> IF d[i][1] = k THEN <<k, v>> ELSE d[i]]
    ELSE Append(d, <<k, v>>)

\* d[k], for a key of d
DictGet(d, k) == d[CHOOSE i \in 1..Len(d) : d[i][1] = k][2]

(***************************************************************************)
(* VersionControl (utility/version_control.py).                            *)
(*                                                                         *)
(* The repository and the source-control tool are the environment: env     *)
(* maps every command line to what subprocess.check_output does with it,   *)
(* Value(output) or Raised("CalledProcessError") for a non-zero exit.      *)
(* Every operation yields [calls, raised, value]: the command lines it     *)
(* issued with their outcomes, the exception that escaped, and the result. *)
(***************************************************************************)
\* "".join([f" -{a}" for a in args])
RECURSIVE FlagText(_)
FlagText(args) == IF args = <<>> THEN "" ELSE " -" \o args[1] \o FlagText(Tail(args))

\* VersionControl.call: the command line it runs (no caller passes keywords)
call_command(cmd, args) == cmd \o FlagText(args)

Called(env, cmd) == [cmd |-> cmd, raised |-> env[cmd].raised, out |-> env[cmd].value]

Done(calls, v) == [calls |-> calls, raised |-> "none", value |-> v]
Failed(calls, exc) == [calls |-> calls, raised |-> exc, value |-> PyNone]

\* text.split("\n")[0]
FirstLine(t) == Split(t, <<"\n">>)[1]

\* an operation that is the one call c and returns v
OfCall(c, v) == IF c.raised # "none" THEN Failed(<<c>>, c.raised) ELSE Done(<<c>>, v)

\* an operation that is the one call c and returns what parsing its output
\* gave, or raises what the parsing raised
OfParsedCall(c, parsed) ==
    IF c.raised # "none" THEN Failed(<<c>>, c.raised)
    ELSE IF parsed.raised # "none" THEN Failed(<<c>>, parsed.raised)
    ELSE Done(<<c>>, parsed.value)

cmd_remote == call_command("git config --get remote.origin.url", <<>>)
cmd_branch == call_command("git rev-parse --abbrev-ref HEAD", <<>>)
cmd_log == call_command("git log HEAD -1", <<>>)
cmd_name_status == call_command("git diff HEAD", <<"-name-status">>)
cmd_describe == call_command("git describe --tags --abbrev=0", <<>>)
\* the source writes the command substitution with backquotes
cmd_describe_latest ==
    call_command("git describe --tags $(git rev-list --tags --max-count=1)", <<>>)
cmd_stat(fn) == call_command("git --no-pager diff HEAD --stat -- \"" \o ToStr(fn) \o "\"", <<>>)

git_remote(env) == OfCall(Called(env, cmd_remote), FirstLine(env[cmd_remote].value))

git_branch(env) == OfCall(Called(env, cmd_branch), FirstLine(env[cmd_branch].value))

(***************************************************************************)
(* VersionControl.git_latest_tag (version_control.py:54-63): c1 is the     *)
(* first call and c2 the second, made only when the first printed a tag.   *)
(***************************************************************************)
\* a variant whose try block ends before the second call
latest_tag_second_call_unguarded(c1, c2) ==
    IF c1.raised = "CalledProcessError" THEN Done(<<c1>>, <<>>)
    ELSE IF Strip(c1.out) = <<>> THEN Done(<<c1>>, <<>>)
    ELSE IF c2.raised # "none" THEN Failed(<<c1, c2>>, c2.raised)
    ELSE Done(<<c1, c2>>, Strip(c2.out))

latest_tag_of(c1, c2) ==
    IF c1.raised = "CalledProcessError" THEN Done(<<c1>>, <<>>)
    ELSE IF c1.raised # "none" THEN Failed(<<c1>>, c1.raised)
    ELSE IF Strip(c1.out) = <<>> THEN Done(<<c1>>, <<>>)
    ELSE IF c2.raised = "CalledProcessError" THEN Done(<<c1, c2>>, <<>>)
    ELSE IF c2.raised # "none" THEN Failed(<<c1, c2>>, c2.raised)
    ELSE Done(<<c1, c2>>, Strip(c2.out))

git_latest_tag(env) ==
    latest_tag_of(Called(env, cmd_describe), Called(env, cmd_describe_latest))

(***************************************************************************)
(* VersionControl.interpret_commit_log (version_control.py:117-129).       *)
(* The dictionary is built field by field; the first field whose           *)
(* expression raises ends the call.                                        *)
(***************************************************************************)
txt_commit == <<"c", "o", "m", "m", "i", "t", " ">>
txt_merge == <<"M", "e", "r", "g", "e", ":", " ">>
txt_author == <<"A", "u", "t", "h", "o", "r", ":", " ">>
txt_date == <<"D", "a", "t", "e", ":", " ">>

\* line.split(prefix)[1]
SecondPiece(line, prefix) ==
    IF line.raised # "none" THEN line ELSE Item(Split(line.value, prefix), 1)

\* lines[k].split(prefix)[1], k counted from 0
AfterPrefix(lines, k, prefix) == SecondPiece(Item(lines, k), prefix)

StripValue(r) == IF r.raised # "none" THEN r ELSE Value(Strip(r.value))

\* 1 * lines[1].startswith("Merge: ")
merge_flag(lines) == IF StartsWith(lines[2], txt_merge) THEN 1 ELSE 0

\* a variant that reads the fields from the same lines whether or not a
\* merge line is there
commit_field_lines_ignore_merge(merge) == [author |-> 1, date |-> 2, message |-> 3]

\* the lines, counted from 0, of the author, of the date and of the start
\* of the message
commit_field_lines(merge) ==
    [author |-> 1 + merge, date |-> 2 + merge, message |-> 3 + merge]

commit_info_of(commit, parents, author, date, message) ==
    IF commit.raised # "none" THEN commit
    ELSE IF parents.raised # "none" THEN parents
    ELSE IF author.raised # "none" THEN author
    ELSE IF date.raised # "none" THEN date
    ELSE Value([commit |-> commit.value, merge |-> parents.value,
                author |-> author.value, date |-> date.value, message |-> message])

commit_info_at(lines, merge, at) ==
    commit_info_of(
        AfterPrefix(lines, 0, txt_commit),
        IF merge = 1 THEN StripValue(AfterPrefix(lines, 1, txt_merge)) ELSE Value(PyFalse),
        StripValue(AfterPrefix(lines, at.author, txt_author)),
        StripValue(AfterPrefix(lines, at.date, txt_date)),
        Strip(Join(SubSeq(lines, at.message + 1, Len(lines)), <<"\n">>)))

commit_info_of_lines(lines) ==
    IF Len(lines) < 2 THEN Raised("IndexError")
    ELSE commit_info_at(lines, merge_flag(lines), commit_field_lines(merge_flag(lines)))

interpret_commit_log(commit_log) == commit_info_of_lines(SplitLines(commit_log))

git_commit_info(env) ==
    OfParsedCall(Called(env, cmd_log), interpret_commit_log(env[cmd_log].value))

(***************************************************************************)
(* VersionControl.git_changed_files, git_diff, git_summary                 *)
(* (version_control.py:65-99, 131-140).                                    *)
(***************************************************************************)
Digits == <<"0", "1", "2", "3", "4", "5", "6", "7", "8", "9">>
IsDigit(c) == \E d \in 1..10 : Digits[d] = c
DigitValue(c) == (CHOOSE d \in 1..10 : Digits[d] = c) - 1

\* an int, as opposed to the text of one
PyInt(k) == [int |-> k]

RECURSIVE DecimalValue(_)
DecimalValue(s) ==
    IF s = <<>> THEN 0
    ELSE 10 * DecimalValue(SubSeq(s, 1, Len(s) - 1)) + DigitValue(s[Len(s)])

\* int(s), for unsigned decimal text
ParseInt(s) ==
    IF s # <<>> /\ \A i \in 1..Len(s) : IsDigit(s[i])
    THEN Value(PyInt(DecimalValue(s)))
    ELSE Raised("ValueError")

\* status, fn, *_ = line.split("\t") for every line, into a dictionary
RECURSIVE changed_files_of(_, _)
RECURSIVE changed_file_added(_, _, _)
changed_file_added(parts, rest, files) ==
    IF Len(parts) < 2 THEN Raised("ValueError")
    ELSE changed_files_of(rest, DictSet(files, parts[2], parts[1]))

changed_files_of(lines, files) ==
    IF lines = <<>> THEN Value(files)
    ELSE changed_file_added(Split(lines[1], <<"\t">>), Tail(lines), files)

git_changed_files(env) ==
    OfParsedCall(Called(env, cmd_name_status),
                 changed_files_of(SplitLines(env[cmd_name_status].value), <<>>))

txt_bytes == <<"b", "y", "t", "e", "s">>
txt_bar == <<" ", "|", " ">>

\* n = int(x.split(" ")[-2]); s = x
stat_with_count(x, n) ==
    IF n.raised # "none" THEN n ELSE Value([stat |-> x, diff_length |-> n.value])

stat_of_bytes(x, words) ==
    IF Len(words) < 2 THEN Raised("IndexError")
    ELSE stat_with_count(x, ParseInt(words[Len(words) - 1]))

\* n, s = x.split(" ")
count_and_stat(parts) ==
    IF Len(parts) # 2 THEN Raised("ValueError")
    ELSE Value([stat |-> parts[2], diff_length |-> parts[1]])

\* x = t.split("\n")[0].split(" | ")[1], here y
stat_of_graph(t, y) ==
    IF y.raised # "none" THEN y
    ELSE IF FindFirst(y.value, <<" ">>) # 0 THEN count_and_stat(Split(y.value, <<" ">>))
    ELSE Value([stat |-> <<>>, diff_length |-> t])

stat_of_line(t, first) ==
    IF EndsWith(Strip(first), txt_bytes)
    THEN stat_of_bytes(Strip(first), Split(Strip(first), <<" ">>))
    ELSE stat_of_graph(t, Item(Split(first, txt_bar), 1))

\* the stat text and the change count read from the output of diff --stat
stat_of(t) ==
    IF t = <<>> THEN Value([stat |-> <<>>, diff_length |-> PyInt(0)])
    ELSE stat_of_line(t, FirstLine(t))

\* the loop of git_diff over the changed files, <<name, status>> pairs
RECURSIVE diff_of_files(_, _, _, _)
RECURSIVE diff_of_file(_, _, _, _, _, _)
diff_of_file(env, changed, calls, files, c, parsed) ==
    IF c.raised # "none" THEN Failed(Append(calls, c), c.raised)
    ELSE IF parsed.raised # "none" THEN Failed(Append(calls, c), parsed.raised)
    ELSE diff_of_files(env, Tail(changed), Append(calls, c),
                       DictSet(files, changed[1][1],
                               [status |-> changed[1][2], stat |-> parsed.value.stat,
                                diff_length |-> parsed.value.diff_length]))

diff_of_files(env, changed, calls, files) ==
    IF changed = <<>> THEN Done(calls, files)
    ELSE diff_of_file(env, changed, calls, files, Called(env, cmd_stat(changed[1][1])),
                      stat_of(env[cmd_stat(changed[1][1])].value))

diff_after(env, changed) ==
    IF changed.raised # "none" THEN changed
    ELSE diff_of_files(env, changed.value, changed.calls, <<>>)

git_diff(env) == diff_after(env, git_changed_files(env))

\* operation a and then, unless a raised, operation b
Sequenced(a, b) ==
    IF a.raised # "none" THEN [calls |-> a.calls, raised |-> a.raised, value |-> <<>>]
    ELSE IF b.raised # "none"
    THEN [calls |-> a.calls \o b.calls, raised |-> b.raised, value |-> <<>>]
    ELSE [calls |-> a.calls \o b.calls, raised |-> "none", value |-> <<a.value, b.value>>]

SwapValues(r) ==
    IF r.raised # "none" THEN r ELSE [r EXCEPT !.value = <<r.value[2], r.value[1]>>]

\* a variant that asks for the tag before the diff
summary_tail_tag_first(env) == SwapValues(Sequenced(git_latest_tag(env), git_diff(env)))

\* diff = cls.git_diff(); tag = cls.git_latest_tag()
summary_tail(env) == Sequenced(git_diff(env), git_latest_tag(env))

summary_record(remote, branch, info, diff, tag) ==
    [remote |-> remote, branch |-> branch, tag |-> tag, commit |-> info.commit,
     merge |-> info.merge, author |-> info.author, date |-> info.date,
     message |-> info.message, diff |-> diff]

summary_of(r) ==
    IF r.raised # "none" THEN Failed(r.calls, r.raised)
    ELSE Done(r.calls, summary_record(r.value[1][1][1], r.value[1][1][2], r.value[1][2],
                                      r.value[2][1], r.value[2][2]))

git_summary(env) ==
    summary_of(Sequenced(Sequenced(Sequenced(git_remote(env), git_branch(env)),
                                   git_commit_info(env)),
                         summary_tail(env)))

(***************************************************************************)
(* The environment of the version-control helper: what the source-control  *)
(* tool prints.                                                            *)
(***************************************************************************)
CallFails == Raised("CalledProcessError")

\* git log -1: "commit <hash>", "Merge: <parents>" for a merge commit,
\* "Author: <author>", "Date:   <date>", a blank line and the message, its
\* lines indented by four spaces
Indented(body) == [i \in 1..Len(body) |-> <<" ", " ", " ", " ">> \o body[i]]

GitLogText(f) ==
    txt_commit \o f.hash \o <<"\n">>
    \o (IF f.merge = PyNone THEN <<>> ELSE txt_merge \o f.merge \o <<"\n">>)
    \o txt_author \o f.author \o <<"\n">>
    \o txt_date \o <<" ", " ">> \o f.date \o <<"\n">>
    \o <<"\n">>
    \o (IF f.body = <<>> THEN <<>> ELSE Join(Indented(f.body), <<"\n">>) \o <<"\n">>)

BodyLines == {<<"m">>, <<>>, txt_merge \o <<"x">>}
Bodies == UNION {[1..n -> BodyLines] : n \in 0..MaxBodyLines}

CommitFields ==
    [hash : {<<"h", "1">>},
     merge : {PyNone, <<"a", " ", "b">>},
     author : {<<"n">>, <<"n", " ", "<", "e", ">">>},
     date : {<<"d">>, <<"d", " ", "+", "0">>},
     body : Bodies]

\* the commits git_summary is run on
HeadCommits == {f \in CommitFields : f.author = <<"n">> /\ f.date = <<"d">> /\ Len(f.body) = 1
                                     /\ f.body[1] = <<"m">>}

file_f == <<"f">>
file_g == <<"g">>

RemoteOutcomes == {CallFails, Value(<<"u", "\n">>)}
BranchOutcomes == {CallFails, Value(<<"m", "\n">>)}
LogOutcomes == {CallFails} \cup {Value(GitLogText(f)) : f \in HeadCommits}
NameStatusOutcomes ==
    {CallFails, Value(<<>>), Value(<<"M", "\t", "f", "\n">>),
     Value(<<"M", "\t", "f", "\n", "A", "\t", "g", "\n">>)}
StatOutcomes(fn) ==
    {CallFails, Value(<<>>),
     Value(<<" ">> \o fn \o txt_bar \o <<"3", " ", "+", "+", "-", "\n">>),
     Value(<<" ">> \o fn \o txt_bar
           \o <<"B", "i", "n", " ", "0", " ", "-", ">", " ", "9", " ">> \o txt_bytes
           \o <<"\n">>)}
DescribeOutcomes == {CallFails, Value(<<"\n">>), Value(<<"v", "1", "\n">>)}
DescribeLatestOutcomes == {CallFails, Value(<<"v", "2", "\n">>)}

GitEnv(remote, branch, head, names, stat_f, stat_g, describe, latest) ==
    (cmd_remote :> remote) @@ (cmd_branch :> branch) @@ (cmd_log :> head)
    @@ (cmd_name_status :> names) @@ (cmd_stat(file_f) :> stat_f)
    @@ (cmd_stat(file_g) :> stat_g) @@ (cmd_describe :> describe)
    @@ (cmd_describe_latest :> latest)

\* ---- VersionControl.git_config (version_control.py:102-110) ----
cmd_config == call_command("git config --list", <<>>)

\* for line in config.splitlines(): k, v = line.split("="); config_dict[k] = v
\* unpacking anything but two parts is a ValueError
RECURSIVE config_dict(_, _)
config_dict(lines, d) ==
    IF lines = <<>> THEN Value(d)
    ELSE IF Len(Split(lines[1], <<"=">>)) # 2 THEN Raised("ValueError")
    ELSE config_dict(Tail(lines),
                     DictSet(d, Split(lines[1], <<"=">>)[1], Split(lines[1], <<"=">>)[2]))

git_config(outcome) ==
    LET called == <<[cmd |-> cmd_config, raised |-> outcome.raised, out |-> outcome.value]>>
    IN  IF outcome.raised # "none" THEN Failed(called, outcome.raised)
        ELSE [calls |-> called,
              raised |-> config_dict(SplitLines(outcome.value), <<>>).raised,
              value |-> config_dict(SplitLines(outcome.value), <<>>).value]

(***************************************************************************)
(* The operations of the helper as actions.  They are class methods that   *)
(* keep no state, so what a call does never depends on the calls before    *)
(* it: a behaviour is one call, from the state where none was made.        *)
(***************************************************************************)
GitReturns(op, r, input) ==
    /\ git_op = "none"
    /\ git_op' = op
    /\ git_calls' = r.calls
    /\ git_raised' = r.raised
    /\ git_tag' = IF op = "git_latest_tag" THEN r.value ELSE PyNone
    /\ git_info' = IF op \in {"interpret_commit_log", "git_config"} THEN r.value ELSE PyNone
    /\ git_summary_value' = IF op = "git_summary" THEN r.value ELSE PyNone
    /\ git_log_input' = input

GitLatestTag ==
    \E describe \in DescribeOutcomes, latest \in DescribeLatestOutcomes :
        /\ GitReturns("git_latest_tag",
                      git_latest_tag(GitEnv(CallFails, CallFails, CallFails, CallFails,
                                            CallFails, CallFails, describe, latest)),
                      PyNone)
        /\ UNCHANGED notGit

GitSummary ==
    \E remote \in RemoteOutcomes, branch \in BranchOutcomes, head \in LogOutcomes,
       names \in NameStatusOutcomes, stat_f \in StatOutcomes(file_f),
       stat_g \in StatOutcomes(file_g), describe \in DescribeOutcomes,
       latest \in DescribeLatestOutcomes :
        /\ GitReturns("git_summary",
                      git_summary(GitEnv(remote, branch, head, names, stat_f, stat_g,
                                         describe, latest)),
                      PyNone)
        /\ UNCHANGED notGit

InterpretCommitLog ==
    \E f \in CommitFields :
        LET r == interpret_commit_log(GitLogText(f))
        IN  /\ GitReturns("interpret_commit_log",
                          [calls |-> <<>>, raised |-> r.raised, value |-> r.value],
                          GitLogText(f))
            /\ UNCHANGED notGit

\* the lines git config --list prints: key=value, the value empty or with
\* a "=" of its own, a key twice
ConfigLines ==
    {<<"a", "=", "b">>, <<"a", "=", "c">>, <<"u", "=">>, <<"k", "=", "v", "=", "w">>,
     <<"x", "=", "=">>}
ConfigListings ==
    {<<>>} \cup {l1 \o <<"\n">> : l1 \in ConfigLines}
    \cup {l1 \o <<"\n">> \o l2 \o <<"\n">> : l1 \in ConfigLines, l2 \in ConfigLines}

GitConfig ==
    \E outcome \in {CallFails} \cup {Value(text) : text \in ConfigListings} :
        /\ GitReturns("git_config", git_config(outcome), outcome.value)
        /\ UNCHANGED notGit

InitGit ==
    /\ git_op = "none"
    /\ git_calls = <<>>
    /\ git_raised = "none"
    /\ git_tag = PyNone
    /\ git_info = PyNone
    /\ git_summary_value = PyNone
    /\ git_log_input = PyNone

NextGit ==
    \/ GitLatestTag
    \/ GitSummary
    \/ InterpretCommitLog
    \/ GitConfig

(***************************************************************************)
(* UI.register_utterance (ui.py:375-386).                                  *)
(* The combo box is modelled by its item list and current index.           *)
(* insertItem(0) moves the current index along with the item it points to  *)
(* (or makes the first item of an empty box current); setCurrentIndex(0)   *)
(* then selects the new item; removeItem(20) removes an item behind the    *)
(* current one and leaves the current index alone.                         *)
(***************************************************************************)
HistoryAfterInsert(history, utterance) == InsertFront(history, utterance)

HistoryTrimDropsNewest(history) ==
    IF Len(history) > max_saved_utterances THEN Tail(history) ELSE history

HistoryTrim(history) ==
    IF Len(history) > max_saved_utterances
    THEN RemoveAt(history, max_saved_utterances)
    ELSE history

\* a variant that leaves the synthesize button as it is
register_without_synthesize(utterance) ==
    /\ utterance_history' = HistoryTrim(HistoryAfterInsert(utterance_history, utterance))
    /\ history_index' = 0
    /\ play_enabled' = TRUE
    /\ generate_enabled' = TRUE
    /\ synthesize_enabled' = synthesize_enabled
    /\ ui_raised' = "none"

register_utterance(utterance) ==
    /\ utterance_history' = HistoryTrim(HistoryAfterInsert(utterance_history, utterance))
    /\ history_index' = 0
    /\ play_enabled' = TRUE
    /\ generate_enabled' = TRUE
    /\ synthesize_enabled' = TRUE
    /\ ui_raised' = "none"

\* Every registration is of a new Utterance object; objects are numbered in
\* the order they are registered.
RegisterUtterance ==
    /\ registered < MaxRegistrations
    /\ registered' = registered + 1
    /\ register_utterance(registered + 1)
    /\ ui_call' = <<"register_utterance">>
    /\ UNCHANGED <<logs, log_window>>
    /\ UNCHANGED browserVars
    /\ UNCHANGED panelVars
    /\ UNCHANGED notUI

(***************************************************************************)
(* UI.log (ui.py:388-400).                                                 *)
(***************************************************************************)
LogModes == {"newline", "append", "overwrite"}
LogLines == {"", "a", "b"}

\* logs[-1] on an empty list raises IndexError
LogRaises(buffer, mode) == mode \in {"append", "overwrite"} /\ buffer = <<>>

\* a buffer that never drops a line
log_newline_keeps_all(buffer, line) == Append(buffer, line)

log_newline_drops_last(buffer, line) ==
    IF Len(buffer) + 1 > max_log_lines THEN buffer ELSE Append(buffer, line)

log_newline(buffer, line) ==
    LET appended == Append(buffer, line)
    IN  IF Len(appended) > max_log_lines THEN Tail(appended) ELSE appended

log_lines(buffer, line, mode) ==
    CASE mode = "newline" -> log_newline(buffer, line)
      [] mode = "append" /\ buffer # <<>> ->
            [buffer EXCEPT ![Len(buffer)] = @ \o line]
      [] mode = "overwrite" /\ buffer # <<>> ->
            [buffer EXCEPT ![Len(buffer)] = line]
      [] OTHER -> buffer

Log ==
    \E line \in LogLines, mode \in LogModes :
        /\ mode = "append" /\ logs # <<>> => Len(logs[Len(logs)] \o line) <= MaxLineLen
        /\ ui_call' = <<"log", mode>>
        /\ IF LogRaises(logs, mode)
           THEN /\ ui_raised' = "IndexError"
                /\ UNCHANGED <<logs, log_window>>
           ELSE /\ logs' = log_lines(logs, line, mode)
                /\ log_window' = JoinLines(logs')
                /\ ui_raised' = "none"
        /\ UNCHANGED historyVars
        /\ UNCHANGED browserVars
        /\ UNCHANGED panelVars
        /\ UNCHANGED notUI

(***************************************************************************)
(* The window after UI.__init__ (ui.py:443-608): an empty history, and the *)
(* state reset_interface leaves: the result-dependent buttons disabled and *)
(* max_log_lines blank lines logged.                                       *)
(***************************************************************************)
RECURSIVE LogBlank(_, _)
LogBlank(buffer, n) ==
    IF n = 0 THEN buffer ELSE LogBlank(log_lines(buffer, "", "newline"), n - 1)

InitUI ==
    /\ utterance_history = <<>>
    /\ history_index = -1
    /\ registered = 0
    /\ play_enabled = FALSE
    /\ generate_enabled = FALSE
    /\ synthesize_enabled = FALSE
    /\ logs = LogBlank(<<>>, max_log_lines)
    /\ log_window = JoinLines(logs)
    /\ ui_call = <<"__init__">>
    /\ ui_raised = "none"

NextUI ==
    \/ RegisterUtterance
    \/ Log

(***************************************************************************)
(* The dataset browser and the record name of the window (ui.py:235-335    *)
(* and 610-615).                                                           *)
(*                                                                         *)
(* The file system below the datasets root is a tree of nodes.  A path is  *)
(* the sequence of names that leads from the root to a node.               *)
(***************************************************************************)
\* the characters of a string
Chars(s) == [i \in 1..Len(s) |-> SubSeq(s, i, i)]

File(name) == [exists |-> TRUE, name |-> name, dir |-> FALSE, mtime |-> 0, entries |-> <<>>]
Dir(name, mtime, entries) ==
    [exists |-> TRUE, name |-> name, dir |-> TRUE, mtime |-> mtime, entries |-> entries]
Missing == [exists |-> FALSE, name |-> <<>>, dir |-> FALSE, mtime |-> 0, entries |-> <<>>]

\* the entry of a directory with a name, Missing when there is none
Child(node, name) ==
    IF node.dir /\ \E i \in 1..Len(node.entries) : node.entries[i].name = name
    THEN node.entries[CHOOSE i \in 1..Len(node.entries) : node.entries[i].name = name]
    ELSE Missing

\* the node at a path below a node; an empty name adds nothing to a path
RECURSIVE Resolve(_, _)
Resolve(node, path) ==
    IF path = <<>> THEN node
    ELSE IF path[1] = <<>> THEN Resolve(node, Tail(path))
    ELSE Resolve(Child(node, path[1]), Tail(path))

\* Path.suffix and Path.stem: the suffix starts at the last dot of the name,
\* unless that dot is the first or the last character
LastDot(name) ==
    IF \E i \in 1..Len(name) : name[i] = "."
    THEN CHOOSE i \in 1..Len(name) : name[i] = "." /\ \A j \in (i + 1)..Len(name) : name[j] # "."
    ELSE 0
suffix(name) ==
    IF 1 < LastDot(name) /\ LastDot(name) < Len(name)
    THEN SubSeq(name, LastDot(name), Len(name)) ELSE <<>>
stem(name) == SubSeq(name, 1, Len(name) - Len(suffix(name)))

\* ---- re.match, for the patterns of check_filename ----
\* A user name pasted into a pattern: a dot matches any character but a
\* line break; letters, digits and @ match themselves.
PatternOf(text) ==
    [i \in 1..Len(text) |-> IF text[i] = "." THEN <<"any">> ELSE <<"lit", text[i]>>]
Literal(text) == [i \in 1..Len(text) |-> <<"lit", text[i]>>]
\* rf"{username}@rec\d*"
record_pattern(username) == PatternOf(username) \o Literal(Chars("@rec")) \o <<<<"digits">>>>
\* rf"{username}@rec\d*\.wav"
file_pattern(username) == record_pattern(username) \o Literal(Chars(".wav"))

\* re.match(pattern, text): the pattern matches a prefix of the text.  \d*
\* takes all the digits it finds; what follows it in these patterns is
\* never a digit, so it never has to give one back.
RECURSIVE re_match(_, _)
re_match(pattern, text) ==
    IF pattern = <<>> THEN TRUE
    ELSE IF pattern[1][1] = "digits"
    THEN IF text # <<>> /\ IsDigit(text[1]) THEN re_match(pattern, Tail(text))
         ELSE re_match(Tail(pattern), text)
    ELSE IF text = <<>> THEN FALSE
    ELSE IF pattern[1][1] = "any" THEN text[1] # "\n" /\ re_match(Tail(pattern), Tail(text))
    ELSE text[1] = pattern[1][2] /\ re_match(Tail(pattern), Tail(text))

\* str(n)
RECURSIVE str_int(_)
str_int(n) ==
    IF n < 10 THEN <<Digits[n + 1]>> ELSE str_int(n \div 10) \o <<Digits[(n % 10) + 1]>>

\* if n < 10: n = f"0{n}"
record_number(n) == IF n < 10 THEN <<"0">> \o str_int(n) ELSE str_int(n)

\* QLineEdit.setText: a text longer than maxLength is cut to it
setText(text, maxLength) == SubSeq(text, 1, Min(Len(text), maxLength))

txt_user01 == Chars("user01")
txt_wav == Chars(".wav")

\* ---- UI.check_filename and UI.user_name_input_changed ----
\* A window w is the record of the fields these methods read and write.
Fails(w, exc) == [w EXCEPT !.raised = exc]

\* len([1 for d in (root / username).iterdir() if re.match(..., d.name)])
RECURSIVE count_matches(_, _)
count_matches(entries, pattern) ==
    IF entries = <<>> THEN 0
    ELSE (IF re_match(pattern, entries[1].name) THEN 1 ELSE 0)
         + count_matches(Tail(entries), pattern)

\* the names print(list(directory.iterdir())) shows
Listing(node) == [i \in 1..Len(node.entries) |-> node.entries[i].name]

\* f"{username}@rec{n}"
record_name_of(username, n) == username \o Chars("@rec") \o record_number(n)

\* the body of the second if, for the directory of the user
name_next_record(w, username, directory) ==
    IF ~directory.dir THEN Fails(w, "NotADirectoryError")
    ELSE [w EXCEPT !.stdout = Append(@, Listing(directory)),
                   !.record_name =
                       setText(record_name_of(username,
                                              count_matches(directory.entries,
                                                            file_pattern(username)) + 1),
                               record_name_max_length)]

\* the second if of check_filename
check_record_name(w, files, username) ==
    IF w.raised # "none" THEN w
    ELSE IF /\ w.datasets_root # PyNone
            /\ re_match(record_pattern(username), w.record_name)
            /\ Resolve(files, <<username>>).exists
    THEN name_next_record(w, username, Resolve(files, <<username>>))
    ELSE w

\* d.is_dir() and all(f.suffix == ".wav" for f in d.iterdir())
wav_only(d) == d.dir /\ \A i \in 1..Len(d.entries) : suffix(d.entries[i].name) = txt_wav

\* other.sort(key=mtime, reverse=True); other[0]: the sort is stable, so of
\* the directories modified last it is the one iterdir() gave first
most_recent(dirs) ==
    dirs[CHOOSE i \in 1..Len(dirs) :
            /\ \A j \in 1..Len(dirs) : dirs[j].mtime <= dirs[i].mtime
            /\ \A j \in 1..(i - 1) : dirs[j].mtime < dirs[i].mtime]

\* t.split("@")[1] put behind the user name
rewrite_prefix(w) ==
    IF "@" \in Range(w.record_name)
    THEN [w EXCEPT !.record_name =
                      setText(w.user_name \o <<"@">> \o Split(w.record_name, <<"@">>)[2],
                              record_name_max_length)]
    ELSE w

RECURSIVE check_filename(_, _), user_name_input_changed(_, _)

\* the body of the first if: adopt the directory modified last
adopt(w, files, other) ==
    IF other = <<>> THEN check_record_name(w, files, w.user_name)
    ELSE check_record_name(
             user_name_input_changed(
                 [w EXCEPT !.user_name = setText(most_recent(other).name,
                                                 user_name_max_length)],
                 files),
             files, most_recent(other).name)

check_filename(w, files) ==
    IF w.raised # "none" THEN w
    ELSE IF w.user_name # txt_user01 THEN check_record_name(w, files, w.user_name)
    \* None has no joinpath
    ELSE IF w.datasets_root = PyNone THEN Fails(w, "AttributeError")
    ELSE IF Resolve(files, <<txt_user01>>).exists THEN check_record_name(w, files, w.user_name)
    \* iterdir() of a root that is not there
    ELSE IF ~files.exists THEN Fails(w, "FileNotFoundError")
    ELSE adopt(w, files, SelectSeq(files.entries, wav_only))

user_name_input_changed(w, files) ==
    IF w.raised # "none" THEN w ELSE check_filename(rewrite_prefix(w), files)

\* ---- UI.repopulate_box and UI.populate_browser ----
\* a combo box: its items, its current index (-1 when it is empty), whether
\* it is disabled and whether its signals are blocked
EmptyBox == [items |-> <<>>, index |-> -1, disabled |-> FALSE, blocked |-> FALSE]

\* box.currentText()
currentText(box) == IF box.index = -1 THEN <<>> ELSE box.items[box.index + 1]

\* np.random.randint(n), for a number the generator drew
randint(drawn, n) == drawn % n

repopulate_box(items, random, drawn) ==
    [items |-> items,
     index |-> IF items = <<>> THEN -1 ELSE IF random THEN randint(drawn, Len(items)) ELSE 0,
     disabled |-> items = <<>>,
     blocked |-> FALSE]

\* [d.relative_to(datasets_root) for d in datasets if d.exists()]
RECURSIVE existing_datasets(_, _)
existing_datasets(files, recognized) ==
    IF recognized = <<>> THEN <<>>
    ELSE (IF Resolve(files, <<recognized[1]>>).exists THEN <<recognized[1]>> ELSE <<>>)
         \o existing_datasets(files, Tail(recognized))

\* [d.stem for d in speakers_root.glob("*") if d.is_dir()]
RECURSIVE stems_of_dirs(_)
stems_of_dirs(entries) ==
    IF entries = <<>> THEN <<>>
    ELSE (IF entries[1].dir THEN <<stem(entries[1].name)>> ELSE <<>>)
         \o stems_of_dirs(Tail(entries))

\* utterances_root.glob("**/*.<extension>"), relative to utterances_root:
\* the matches in a directory, then those below each of its directories
RECURSIVE glob_here(_, _, _), glob_below(_, _, _)
glob_here(entries, extension, prefix) ==
    IF entries = <<>> THEN <<>>
    ELSE (IF EndsWith(entries[1].name, <<".">> \o extension)
          THEN <<prefix \o entries[1].name>> ELSE <<>>)
         \o glob_here(Tail(entries), extension, prefix)
glob_below(entries, extension, prefix) ==
    IF entries = <<>> THEN <<>>
    ELSE (IF entries[1].dir
          THEN glob_here(entries[1].entries, extension, prefix \o entries[1].name \o <<"/">>)
               \o glob_below(entries[1].entries, extension,
                             prefix \o entries[1].name \o <<"/">>)
          ELSE <<>>)
         \o glob_below(Tail(entries), extension, prefix)
glob_recursive(node, extension) ==
    glob_here(node.entries, extension, <<>>) \o glob_below(node.entries, extension, <<>>)

\* for extension in ["mp3", "flac", "wav", "m4a"]: utterances.extend(...)
utterances_under(node) ==
    glob_recursive(node, Chars("mp3")) \o glob_recursive(node, Chars("flac"))
    \o glob_recursive(node, Chars("wav")) \o glob_recursive(node, Chars("m4a"))

BrowserWidgets == {"random_utterance_button", "random_speaker_button",
                   "random_dataset_button", "browser_load_button", "auto_next_checkbox"}

msg_no_root == "Warning: you did not pass a root directory for datasets as argument"
msg_no_datasets(root) == "Warning: you do not have any of the recognized datasets in " \o ToStr(root)
msg_advice(recognized) ==
    ".\nThe recognized datasets are:\n\t" \o ToStr(Join(recognized, <<"\n", "\t">>))
    \o "\nFeel free to add your own. You can still use the toolbox by recording samples yourself."

\* the branch of populate_browser that finds nothing to browse
warn_and_disable(w, msg, recognized) ==
    [w EXCEPT !.logs = log_lines(@, msg, "newline"),
              !.stderr = Append(@, msg \o msg_advice(recognized)),
              !.disabled = @ \cup BrowserWidgets,
              !.utterance_box.disabled = TRUE,
              !.speaker_box.disabled = TRUE,
              !.dataset_box.disabled = TRUE]

\* if level <= 2
select_utterance(w, files, level, random, drawn) ==
    IF w.raised # "none" \/ level > 2 THEN w
    ELSE IF w.datasets_root = PyNone THEN Fails(w, "AttributeError")
    ELSE [w EXCEPT !.utterance_box =
                      repopulate_box(
                          utterances_under(Resolve(files, <<currentText(w.dataset_box),
                                                            currentText(w.speaker_box)>>)),
                          random, drawn[3])]

\* a browser that fills the speaker selector at every level
select_speaker_at_every_level(w, files, level, random, drawn) ==
    IF w.raised # "none" THEN w
    ELSE IF w.datasets_root = PyNone THEN Fails(w, "AttributeError")
    ELSE [w EXCEPT !.speaker_box =
                      repopulate_box(
                          stems_of_dirs(Resolve(files, <<currentText(w.dataset_box)>>).entries),
                          random, drawn[2])]

\* if level <= 1
select_speaker(w, files, level, random, drawn) ==
    IF w.raised # "none" \/ level > 1 THEN w
    ELSE IF w.datasets_root = PyNone THEN Fails(w, "AttributeError")
    ELSE [w EXCEPT !.speaker_box =
                      repopulate_box(
                          stems_of_dirs(Resolve(files, <<currentText(w.dataset_box)>>).entries),
                          random, drawn[2])]

\* if level <= 0, for the datasets found
select_dataset(w, files, datasets, recognized, level, random, drawn) ==
    IF w.raised # "none" THEN w
    ELSE IF level > 0
    THEN select_utterance(select_speaker(w, files, level, random, drawn),
                          files, level, random, drawn)
    ELSE IF w.datasets_root = PyNone THEN warn_and_disable(w, msg_no_root, recognized)
    ELSE IF datasets = <<>>
    THEN warn_and_disable(w, msg_no_datasets(w.datasets_root), recognized)
    ELSE select_utterance(
             select_speaker([w EXCEPT !.disabled = @ \ {"browser_load_button"},
                                      !.dataset_box = repopulate_box(datasets, random, drawn[1])],
                            files, level, random, drawn),
             files, level, random, drawn)

populate_browser(w, files, root, recognized, level, random, drawn) ==
    select_dataset(check_filename([w EXCEPT !.datasets_root = root], files), files,
                   existing_datasets(files, recognized), recognized, level, random, drawn)

(***************************************************************************)
(* One selector step by step (ui.py:251-264).  A QComboBox emits           *)
(* currentIndexChanged when its current index changes; the signal reaches  *)
(* the connected slot unless the signals of the box are blocked.           *)
(***************************************************************************)
\* a box and the calls of its slot made so far: c.box, c.fired
Combo(box) == [box |-> box, fired |-> <<>>]

\* the current index becomes i
index_becomes(c, i) ==
    [box |-> [c.box EXCEPT !.index = i],
     fired |-> IF i # c.box.index /\ ~c.box.blocked
               THEN Append(c.fired, <<"currentIndexChanged", i>>) ELSE c.fired]

\* a repopulate_box that leaves the signals alone
blockSignals_ignored(c, block) == c

\* box.blockSignals(block)
blockSignals(c, block) == [c EXCEPT !.box.blocked = block]

\* box.clear()
clear(c) == index_becomes([c EXCEPT !.box.items = <<>>, !.box.data = <<>>], -1)

\* list(item) if isinstance(item, tuple) else [item]
as_list(item) == IF item.tuple THEN item.parts ELSE <<item.parts>>

\* box.addItem(text, *data): the first item of a box becomes its current one
addItem(c, text, data) ==
    index_becomes([c EXCEPT !.box.items = Append(@, text), !.box.data = Append(@, data)],
                  IF c.box.items = <<>> THEN 0 ELSE c.box.index)

\* for item in items: box.addItem(str(item[0]), *item[1:])
RECURSIVE add_items(_, _)
add_items(c, entries) ==
    IF entries = <<>> THEN c
    ELSE add_items(addItem(c, as_list(entries[1])[1], Tail(as_list(entries[1]))),
                   Tail(entries))

\* box.setCurrentIndex(i)
setCurrentIndex(c, i) == index_becomes(c, i)

\* box.setDisabled(off)
setDisabled(c, off) == [c EXCEPT !.box.disabled = off]

\* UI.repopulate_box on a box in any state, with the calls of the slot
repopulate(c, entries, random, drawn) ==
    blockSignals(
        setDisabled(
            IF Len(entries) > 0
            THEN setCurrentIndex(add_items(clear(blockSignals(c, TRUE)), entries),
                                 IF random THEN randint(drawn, Len(entries)) ELSE 0)
            ELSE add_items(clear(blockSignals(c, TRUE)), entries),
            Len(entries) = 0),
        FALSE)

\* the items callers pass: a text, or a tuple of a text and the data joined
\* to it (a path)
BoxTexts == {Chars("a"), Chars("b")}
BoxItems ==
    {[tuple |-> FALSE, parts |-> t] : t \in BoxTexts}
    \cup {[tuple |-> TRUE, parts |-> <<t, Chars("/m/") \o t>>] : t \in {Chars("a")}}
ItemLists == UNION {[1..n -> BoxItems] : n \in 0..MaxItems}

NoBoxCall == [op |-> "__init__", entries |-> <<>>, random |-> FALSE, drawn |-> 0]

\* repopulate_box(box, items, random) on the box as it is
RepopulateBox ==
    \E entries \in ItemLists, random \in BOOLEAN, drawn \in 0..(MaxItems - 1) :
        /\ random \/ drawn = 0
        /\ combo_box' = repopulate(Combo(combo_box), entries, random, drawn).box
        /\ slot_calls' = repopulate(Combo(combo_box), entries, random, drawn).fired
        /\ box_call' = [op |-> "repopulate_box", entries |-> entries, random |-> random,
                        drawn |-> drawn]
        /\ UNCHANGED notBox

\* the operator picks another item of the box
SelectItem ==
    /\ ~combo_box.disabled
    /\ \E i \in 0..(Len(combo_box.items) - 1) :
          /\ i # combo_box.index
          /\ combo_box' = setCurrentIndex(Combo(combo_box), i).box
          /\ slot_calls' = setCurrentIndex(Combo(combo_box), i).fired
          /\ box_call' = [NoBoxCall EXCEPT !.op = "select"]
          /\ UNCHANGED notBox

\* a box as Qt constructs it
InitBox ==
    /\ combo_box = [items |-> <<>>, index |-> -1, disabled |-> FALSE, blocked |-> FALSE,
                    data |-> <<>>]
    /\ slot_calls = <<>>
    /\ box_call = NoBoxCall

NextBox == RepopulateBox \/ SelectItem

(***************************************************************************)
(* The files the window finds below the datasets root.                     *)
(***************************************************************************)
RootPath == Chars("/data")
LongName == Chars("abcdefghijklmno")
txt_al == Chars("al")
txt_bo == Chars("bo")

\* the file a recording is saved to
Recording(user, i) ==
    File(user \o Chars("@rec") \o (IF i < 10 THEN <<"0">> ELSE <<>>) \o str_int(i) \o txt_wav)
Recordings(user, n) == [i \in 1..n |-> Recording(user, i)]

\* what else lies in the directory of a user: nothing, the backup of a
\* recording, a file that is no recording
Extras(user) ==
    {<<>>, <<File(user \o Chars("@rec01.wav.bak"))>>, <<File(Chars("notes.txt"))>>}

UserDirs(user, mtime) ==
    {Dir(user, mtime, Recordings(user, n) \o x) : n \in 0..MaxRecordings, x \in Extras(user)}

\* a recognized dataset with two speakers
DatasetDir ==
    Dir(Chars("ds"), 1,
        <<Dir(Chars("s1"), 1,
              <<File(Chars("u.wav")), Dir(Chars("sub"), 1, <<File(Chars("w.mp3"))>>),
                File(Chars("x.txt"))>>),
          Dir(Chars("s.2"), 1, <<File(Chars("v.flac"))>>),
          File(Chars("readme"))>>)

\* the directories of users next to the dataset: none, one user's, or two
\* that hold recordings only
UserDirLists ==
    {<<>>}
    \cup {<<d>> : d \in UserDirs(txt_al, 1) \cup UserDirs(txt_user01, 1) \cup UserDirs(LongName, 1)}
    \cup {<<Dir(txt_al, m, Recordings(txt_al, 1)), Dir(txt_bo, 3 - m, <<>>)>> : m \in 1..2}
    \cup {<<Dir(txt_al, 1, Recordings(txt_al, 1)), Dir(txt_bo, 1, <<>>)>>}

FileSystems ==
    {Missing} \cup {Dir(RootPath, 1, <<DatasetDir>> \o users) : users \in UserDirLists}

\* before the window has looked at the files
Unseen == [exists |-> FALSE, name |-> <<"?">>, dir |-> FALSE, mtime |-> 0, entries |-> <<>>]
FilesFound == IF fs = Unseen THEN FileSystems ELSE {fs}

RecognizedLists == {<<Chars("ds")>>, <<Chars("zz")>>}
TypedUserNames == {txt_al, txt_user01, LongName}
TypedRecordNames == {Chars("take1"), Chars("al@rec")}
Draws == [1..3 -> 0..(MaxDraw - 1)]

(***************************************************************************)
(* The handlers of the browser as actions.  An exception that leaves a     *)
(* handler ends the application.                                           *)
(***************************************************************************)
Window ==
    [user_name |-> user_name_input, record_name |-> record_name_input,
     datasets_root |-> datasets_root, dataset_box |-> dataset_box,
     speaker_box |-> speaker_box, utterance_box |-> utterance_box,
     disabled |-> disabled_widgets, logs |-> logs, stdout |-> <<>>, stderr |-> <<>>,
     raised |-> "none"]

Typed(w, name, text) ==
    IF name = "user_name" THEN [w EXCEPT !.user_name = text]
    ELSE [w EXCEPT !.record_name = text]

Handled(call, w, files) ==
    /\ ui_call' = call
    /\ ui_raised' = w.raised
    /\ user_name_input' = w.user_name
    /\ record_name_input' = w.record_name
    /\ datasets_root' = w.datasets_root
    /\ dataset_box' = w.dataset_box
    /\ speaker_box' = w.speaker_box
    /\ utterance_box' = w.utterance_box
    /\ disabled_widgets' = w.disabled
    /\ logs' = w.logs
    /\ log_window' = JoinLines(w.logs)
    /\ stdout' = w.stdout
    /\ stderr' = w.stderr
    /\ fs' = files
    /\ handler_calls' = handler_calls + 1
    /\ UNCHANGED historyVars
    /\ UNCHANGED panelVars
    /\ UNCHANGED notUI

Running == ui_raised = "none" /\ handler_calls < MaxHandlerCalls

\* populate_browser, for the levels and the random flags the callers pass
PopulateBrowser(levels, randoms) ==
    /\ Running
    /\ \E files \in FilesFound, root \in {PyNone, RootPath}, recognized \in RecognizedLists,
          level \in levels, random \in randoms, drawn \in Draws :
          \* a number is drawn for each box that is filled at random
          /\ \A i \in 1..3 : ~random \/ i <= level => drawn[i] = 0
          /\ Handled(<<"populate_browser", ToStr(str_int(level)), recognized>>,
                     populate_browser(Window, files, root, recognized, level, random, drawn),
                     files)

\* the operator types in the user name field: textEdited calls the handler
UserNameEdited ==
    /\ Running
    /\ \E files \in FilesFound, text \in TypedUserNames :
          /\ text # user_name_input
          /\ Handled(<<"user_name_input_changed">>,
                     user_name_input_changed(Typed(Window, "user_name", text), files), files)

\* the operator types in the record name field: no handler is connected
RecordNameEdited ==
    /\ Running
    /\ \E text \in TypedRecordNames :
          /\ text # record_name_input
          /\ Handled(<<"record_name_edited">>, Typed(Window, "record_name", text), fs)

CheckFilename ==
    /\ Running
    /\ \E files \in FilesFound :
          Handled(<<"check_filename">>, check_filename(Window, files), files)

\* after UI.__init__ (ui.py:449, 479-513)
InitBrowser ==
    /\ user_name_input = txt_user01
    /\ record_name_input = Chars("user01@rec01")
    /\ datasets_root = PyNone
    /\ dataset_box = EmptyBox
    /\ speaker_box = EmptyBox
    /\ utterance_box = EmptyBox
    /\ disabled_widgets = {}
    /\ stdout = <<>>
    /\ stderr = <<>>
    /\ fs = Unseen
    /\ handler_calls = 0

\* The record name does not depend on how the boxes are filled: they are
\* filled in order here.
NextRecordName ==
    \/ PopulateBrowser(0..2, {FALSE})
    \/ UserNameEdited
    \/ RecordNameEdited
    \/ CheckFilename

\* The browser filled at every level, in order or at random.
NextBrowser == handler_calls < MaxBrowserCalls /\ PopulateBrowser(0..2, BOOLEAN)

(***************************************************************************)
(* The reflective enumeration (better_enum.py:7-99).                       *)
(*                                                                         *)
(* A class is its name and the attributes of its body in the order they    *)
(* were declared (cls.__dict__).  An attribute is a key and a value; a     *)
(* value is a text, a classmethod object or another enumeration class.     *)
(***************************************************************************)
Text(text) == [kind |-> "str", text |-> text, name |-> <<>>, members |-> <<>>]
ClassMethod(name) == [kind |-> "classmethod", text |-> <<>>, name |-> name, members |-> <<>>]
EnumValue(name, members) == [kind |-> "enum", text |-> <<>>, name |-> name, members |-> members]
Attr(key, value) == [key |-> key, value |-> value]
Class(name, members) == [name |-> name, members |-> members]

\* not key.startswith("_")
is_public(key) == ~StartsWith(key, <<"_">>)

\* [k for k in cls.__dict__ if not k.startswith("_")]
names(cls) ==
    LET public == SelectSeq(cls.members, LAMBDA a : is_public(a.key))
    IN  [i \in 1..Len(public) |-> public[i].key]

keys(cls) == names(cls)

\* [v for k, v in cls.__dict__.items()
\*  if not k.startswith("_") and not isinstance(v, classmethod)]
values(cls) ==
    LET kept == SelectSeq(cls.members,
                          LAMBDA a : is_public(a.key) /\ a.value.kind # "classmethod")
    IN  [i \in 1..Len(kept) |-> kept[i].value]

\* zip(cls.keys(), cls.values()): as many pairs as the shorter list has
items(cls) ==
    [i \in 1..Min(Len(keys(cls)), Len(values(cls))) |-> <<keys(cls)[i], values(cls)[i]>>]

\* what iterating over the class yields
__iter__(cls) ==
    LET public == SelectSeq(cls.members, LAMBDA a : is_public(a.key))
    IN  [i \in 1..Len(public) |-> public[i].value]

__len__(cls) == Len(values(cls))

__contains__(cls, item) == item \in Range(values(cls))

\* the first public key whose value equals the value, None when there is none
get_name(cls, value) ==
    LET hits == {i \in 1..Len(cls.members) :
                    is_public(cls.members[i].key) /\ cls.members[i].value = value}
    IN  IF hits = {} THEN PyNone
        ELSE cls.members[CHOOSE i \in hits : \A j \in hits : i <= j].key

\* None, where a value of an attribute is expected
NoneValue == [kind |-> "None", text |-> <<>>, name |-> <<>>, members |-> <<>>]

\* cls.__dict__.get(item)
__getitem__(cls, item) ==
    IF \E i \in 1..Len(cls.members) : cls.members[i].key = item
    THEN (cls.members[CHOOSE i \in 1..Len(cls.members) : cls.members[i].key = item]).value
    ELSE NoneValue

\* ---- _BetterEnumMeta.repr ----
\* max_lines is <<>> for None and <<m>> for the number m
Unlimited == <<>>
default_line_length == 80

Max(a, b) == IF a > b THEN a ELSE b

\* "\n\t".join(value_str.splitlines())
indent_lines(value_str) == Join(SplitLines(value_str), <<"\n", "\t">>)

txt_ellipsis == Chars("...")

\* f"{cls.__name__}({content})", or the form with a line for each member
\* when that is longer than line_length
one_or_many_lines(name, repr_strs, line_length) ==
    IF Len(name \o <<"(">> \o Join(repr_strs, <<",", " ">>) \o <<")">>) > line_length
    THEN name \o <<":", "\n", "\t">> \o Join(repr_strs, <<"\n", "\t">>)
    ELSE name \o <<"(">> \o Join(repr_strs, <<",", " ">>) \o <<")">>

\* s = "\n".join(s.splitlines()[: max_lines - 1]); s += "\n..."
cut_to_max_lines(s, max_lines) ==
    IF max_lines # Unlimited /\ Len(SplitLines(s)) > max_lines[1]
    THEN Join(SubSeq(SplitLines(s), 1, max_lines[1] - 1), <<"\n">>)
         \o <<"\n">> \o txt_ellipsis
    ELSE s

\* f"{key}: ..." when the value would not fit, f"{key}: {value_str}" otherwise
member_str(key, value_str, max_lines, repr_strs) ==
    IF max_lines # Unlimited /\ Len(repr_strs) + Len(SplitLines(value_str)) > max_lines[1]
    THEN key \o <<":", " ">> \o txt_ellipsis
    ELSE key \o <<":", " ">> \o value_str

RECURSIVE repr(_, _, _), value_repr(_, _, _), repr_loop(_, _, _, _, _)

\* value.repr(max([1, int(max_lines / count)])) when the value has a repr;
\* dividing None raises, and then, as for any other value, str(value)
value_repr(value, max_lines, count) ==
    IF value.kind = "enum"
    THEN IF max_lines = Unlimited
         THEN repr(Class(value.name, value.members), Unlimited, default_line_length)
         ELSE repr(Class(value.name, value.members),
                   <<Max(1, max_lines[1] \div count)>>, default_line_length)
    ELSE value.text

\* the loop over cls.items(), at its k-th item: n_keys is k - 1
repr_loop(pairs, k, max_lines, count, repr_strs) ==
    IF k > Len(pairs) THEN repr_strs
    ELSE IF max_lines = Unlimited \/ k - 1 < max_lines[1]
    THEN repr_loop(pairs, k + 1, max_lines, count,
                   Append(repr_strs,
                          member_str(pairs[k][1],
                                     indent_lines(value_repr(pairs[k][2], max_lines, count)),
                                     max_lines, repr_strs)))
    ELSE IF Len(repr_strs) + 1 >= max_lines[1]
    THEN Append(repr_strs, pairs[k][1] \o <<":", " ">> \o txt_ellipsis)
    ELSE repr_loop(pairs, k + 1, max_lines, count,
                   Append(repr_strs, pairs[k][1] \o <<":", " ">> \o txt_ellipsis))

repr(cls, max_lines, line_length) ==
    IF max_lines = <<1>> /\ Len(SplitLines(repr(cls, Unlimited, line_length))) <= 1
    THEN repr(cls, Unlimited, line_length)
    ELSE cut_to_max_lines(
             one_or_many_lines(cls.name,
                               repr_loop(items(cls), 1, max_lines, Len(items(cls)), <<>>),
                               line_length),
             max_lines)

\* ---- the classes and the calls ----
Color ==
    EnumValue(Chars("Col"), <<Attr(Chars("R"), Text(Chars("red"))),
                              Attr(Chars("B"), Text(Chars("blue"))),
                              Attr(Chars("G"), Text(Chars("green")))>>)

\* what the body of a class may declare: values, two of them equal, a
\* private attribute, a classmethod, a text of two lines, another class
Attrs ==
    {Attr(Chars("a"), Text(Chars("1"))), Attr(Chars("b"), Text(Chars("2"))),
     Attr(Chars("c"), Text(Chars("1"))), Attr(Chars("_h"), Text(Chars("3"))),
     Attr(Chars("m"), ClassMethod(Chars("m"))), Attr(Chars("x"), Text(<<"l", "\n", "k">>)),
     Attr(Chars("n"), Color)}

ClassBodies(n) == {b \in [1..n -> Attrs] : \A i, j \in 1..n : b[i] = b[j] => i = j}
EnumClasses == {Class(Chars("E"), b) : b \in UNION {ClassBodies(n) : n \in 0..MaxMembers}}

LineLengths == {10, 80}
LineLimits == {Unlimited} \cup {<<m>> : m \in 1..MaxLines}
Candidates == {Text(Chars("1")), Text(Chars("3")), Text(Chars("9")), ClassMethod(Chars("m"))}

\* before a class is defined
NoClass == Class(<<>>, <<>>)

Returns(call, result) ==
    /\ enum_cls # NoClass
    /\ enum_call' = call
    /\ enum_result' = result
    /\ UNCHANGED enum_cls
    /\ UNCHANGED notEnum

DefineClass ==
    /\ enum_cls = NoClass
    /\ \E cls \in EnumClasses :
          /\ enum_cls' = cls
          /\ enum_call' = <<"class">>
          /\ UNCHANGED enum_result
    /\ UNCHANGED notEnum

Iterate == Returns(<<"__iter__">>, __iter__(enum_cls))
Length == Returns(<<"__len__">>, __len__(enum_cls))
Contains == \E item \in Candidates : Returns(<<"__contains__", item>>, __contains__(enum_cls, item))
Repr ==
    \E max_lines \in LineLimits, line_length \in LineLengths :
        Returns(<<"repr", max_lines, line_length>>, repr(enum_cls, max_lines, line_length))

Keys == Returns(<<"keys">>, keys(enum_cls))
Values == Returns(<<"values">>, values(enum_cls))
Items == Returns(<<"items">>, items(enum_cls))

ItemNames == {Chars("a"), Chars("c"), Chars("_h"), Chars("m"), Chars("zz")}
GetItem == \E item \in ItemNames : Returns(<<"__getitem__", item>>, __getitem__(enum_cls, item))
GetName == \E value \in Candidates : Returns(<<"get_name", value>>, get_name(enum_cls, value))

InitEnum ==
    /\ enum_cls = NoClass
    /\ enum_call = <<>>
    /\ enum_result = PyNone

NextEnum ==
    \/ DefineClass
    \/ Iterate
    \/ Length
    \/ Contains
    \/ Repr
    \/ Keys
    \/ Values
    \/ Items
    \/ GetItem
    \/ GetName

(***************************************************************************)
(* The command line dispatcher (cli/cli.py).                               *)
(*                                                                         *)
(* What an invocation does is the sequence of its effects, in order, and   *)
(* the exception that escaped it.  An effect is <<kind, name, args>>:      *)
(*   "branch"        the branch of _run that was entered, for a command    *)
(*   "run"           subprocess.run(tokens)                                *)
(*   "shell"         subprocess.run(text, shell=True)                      *)
(*   "check_output"  a command of the version-control helper               *)
(*   "log"           logger.info                                           *)
(*   "print"         print                                                 *)
(*   "pyhelp"        the built-in help()                                   *)
(*   "main"          from memic.cli.<name> import main; main(args...)      *)
(***************************************************************************)
Ok(events) == [events |-> events, raised |-> "none"]
Raises(events, exc) == [events |-> events, raised |-> exc]
\* the effects in events, and then operation o
After(events, o) == [events |-> events \o o.events, raised |-> o.raised]

Branch(b, cmd) == <<"branch", b, <<cmd>>>>
Ran(tokens) == <<"run", tokens[1], tokens>>
Shell(text) == <<"shell", text, <<>>>>
Logged(value) == <<"log", "Running command: ", value>>
Output(what, value) == <<"print", what, value>>
Entered(module, args) == <<"main", module, args>>

\* " ".join(tokens)
RECURSIVE JoinWords(_)
JoinWords(tokens) ==
    IF tokens = <<>> THEN ""
    ELSE IF Len(tokens) = 1 THEN tokens[1]
    ELSE tokens[1] \o " " \o JoinWords(Tail(tokens))

\* func.startswith("--")
StartsWithDashes(word) == Len(word) >= 2 /\ SubSeq(word, 1, 2) = "--"

\* ---- class Cmds: the public alias table ----
jup == <<"jupyter", "notebook", "--ip=0.0.0.0", "--allow-root",
         "--notebook-dir='src/jupyter'", "--NotebookApp.token=''",
         "--NotebookApp.password=''">>
console == <<"ipython", "-i", "-c">>
repl == <<"python", "-i", "-c">>

\* the entries of the table, in declaration order
CmdsMembers == <<"jup", "console", "repl">>
\* the class methods declared in the body of Cmds
CmdsClassMethods == {"get_help", "help"}
\* the methods Cmds gets from its metaclass, _BetterEnumMeta
BetterEnumMethods == {"items", "keys", "names", "values", "get_name", "repr", "print"}

\* hasattr(Cmds, name): the entries, the class methods, the methods of the
\* metaclass, and what every class has, such as __name__ and __doc__
hasattr_Cmds(name) ==
    name \in Range(CmdsMembers) \cup CmdsClassMethods \cup BetterEnumMethods
             \cup {"__name__", "__doc__"}

\* getattr(Cmds, name): a list of tokens for an entry, a str for __name__
\* and __doc__ (here as its characters; of the help text that __doc__ holds,
\* only its first word), a bound method for everything else
getattr_Cmds(name) ==
    CASE name = "jup" -> [type |-> "list", value |-> jup]
      [] name = "console" -> [type |-> "list", value |-> console]
      [] name = "repl" -> [type |-> "list", value |-> repl]
      [] name = "__name__" -> [type |-> "str", value |-> <<"C", "m", "d", "s">>]
      [] name = "__doc__" -> [type |-> "str", value |-> <<"D", "i", "r", "e", "c", "t">>]
      [] OTHER -> [type |-> "method", value |-> <<name>>]

\* a list of tokens as the value of an attribute
ListValue(tokens) == [kind |-> "list", text |-> <<>>, name |-> <<>>, members |-> tokens]

\* the body of class Cmds, as a reflective enumeration
CmdsClass ==
    Class(Chars("Cmds"),
          <<Attr(Chars("jup"), ListValue(jup)), Attr(Chars("console"), ListValue(console)),
            Attr(Chars("repl"), ListValue(repl)),
            Attr(Chars("get_help"), ClassMethod(Chars("get_help"))),
            Attr(Chars("help"), ClassMethod(Chars("help")))>>)

\* Cmds.get_help(): for name, cmd in cls.items(), the name and " ".join(cmd)
Cmds_get_help ==
    [i \in 1..Len(items(CmdsClass)) |->
        <<ToStr(items(CmdsClass)[i][1]), JoinWords(items(CmdsClass)[i][2].members)>>]

\* ---- class InternalCmds ----
open_browser(linux) == IF linux THEN <<"xdg-open">> ELSE <<"explorer">>
pre_commit_run_all_files == <<"pre-commit", "run", "--all-files">>
black_reformat == <<"pre-commit", "run", "black", "--all-files", "--hook-stage", "manual">>
git_update == <<"git", "add", "-u">>
pytest == <<"pytest">>
pytest_cov == pytest \o <<"--cov">>
coverage_html == <<"coverage", "html">>
open_coverage(linux) == open_browser(linux) \o <<"file://htmlcov/index.html">>

\* ---- class Scripts ----
\* the names the help catalog lists: dir(cls) without the names that start
\* with an underscore and without get_help
ScriptsPublic == {"cli", "enc", "encoder", "fix", "fmt", "help", "synth", "synthesizer",
                  "test", "toolbox", "voc", "vocode", "vocoder"}
ScriptsMethods == ScriptsPublic \cup {"get_help", "_synthesizer_preprocess", "_run", "__call__"}
\* hasattr(self, name): the methods, and what every object has, such as __doc__
hasattr_self(name) == name \in ScriptsMethods \cup {"__doc__"}
\* hasattr(cls, name): a class also has a __name__
hasattr_Scripts(name) == hasattr_self(name) \/ name = "__name__"
\* the methods written without a docstring
Docless == {"_synthesizer_preprocess", "__call__"}

\* def fix(self): any argument is one too many
fix(args) ==
    IF args # <<>> THEN Raises(<<>>, "TypeError")
    ELSE Ok(<<Ran(pre_commit_run_all_files)>>)

fmt(args) == Ok(<<Ran(black_reformat), Ran(git_update)>>)

\* a variant that renders the report whatever the arguments are
report_wanted_whatever_flag(args, returncode) == returncode = 0

\* p.returncode == 0 and not "--no-open" in args
report_wanted(args, returncode) == returncode = 0 /\ "--no-open" \notin Range(args)

test(args, host) ==
    IF report_wanted(args, host.returncode)
    THEN Ok(<<Shell(JoinWords(pytest_cov)), Ran(coverage_html), Ran(open_coverage(host.linux))>>)
    ELSE Ok(<<Shell(JoinWords(pytest_cov))>>)

toolbox(args) == Ok(<<Entered("demo_toolbox", args)>>)

\* a variant that loads the toolbox before the command line interface
cli_after_toolbox(args) == Ok(<<Entered("demo_toolbox", args), Entered("demo_cli", args)>>)

cli(args) == Ok(<<Entered("demo_cli", args)>>)

\* a variant that trains on every sub-action but preprocess
sub_action_defaults_to_train(stage, cmd, args) ==
    IF cmd = "preprocess" THEN Ok(<<Entered(stage \o "_preprocess", args)>>)
    ELSE Ok(<<Entered(stage \o "_train", args)>>)

\* if cmd == "train": ... elif cmd == "preprocess": ...
train_or_preprocess(stage, cmd, args) ==
    IF cmd = "train" THEN Ok(<<Entered(stage \o "_train", args)>>)
    ELSE IF cmd = "preprocess" THEN Ok(<<Entered(stage \o "_preprocess", args)>>)
    ELSE Ok(<<>>)

\* def encoder(self, cmd, *args): a call with no argument is a TypeError
encoder(args) ==
    IF args = <<>> THEN Raises(<<>>, "TypeError")
    ELSE train_or_preprocess("encoder", args[1], Tail(args))

enc(args) == encoder(args)

_synthesizer_preprocess(args) ==
    IF args = <<>> THEN Raises(<<>>, "TypeError")
    ELSE IF args[1] = "audio"
    THEN Ok(<<Entered("synthesizer_preprocess_audio", Tail(args))>>)
    ELSE IF args[1] = "embeds"
    THEN Ok(<<Entered("synthesizer_preprocess_embeds", Tail(args))>>)
    ELSE Ok(<<>>)

synthesizer(args) ==
    IF args = <<>> THEN Raises(<<>>, "TypeError")
    ELSE IF args[1] = "preprocess" THEN _synthesizer_preprocess(Tail(args))
    ELSE IF args[1] = "train" THEN Ok(<<Entered("synthesizer_train", Tail(args))>>)
    ELSE Ok(<<>>)

synth(args) == synthesizer(args)

vocoder(args) ==
    IF args = <<>> THEN Raises(<<>>, "TypeError")
    ELSE train_or_preprocess("vocoder", args[1], Tail(args))

voc(args) == vocoder(args)

vocode(args) == vocoder(args)

\* ---- Scripts.get_help and Scripts.help ----
Returned(events, value) == [events |-> events, raised |-> "none", value |-> value]

doc_of(func) == IF func \in Docless THEN <<"None", "">> ELSE <<"doc", func>>

\* dir(cls), in its sorted order, without what every object has
ScriptsDir ==
    <<"__call__", "_run", "_synthesizer_preprocess", "cli", "enc", "encoder", "fix", "fmt",
      "get_help", "help", "synth", "synthesizer", "test", "toolbox", "voc", "vocode",
      "vocoder">>

\* a variant that also leaves out help
listed_without_help(name) == SubSeq(name, 1, 1) # "_" /\ name \notin {"get_help", "help"}

\* if name.startswith("_") or name == "get_help": continue
listed(name) == SubSeq(name, 1, 1) # "_" /\ name # "get_help"

\* d.splitlines()[0] if isinstance(d, str) else ""
first_doc_line(name) == IF name \in Docless THEN <<>> ELSE <<"first line of", name>>

\* the full catalog: a line for each listed name of dir(cls), with the
\* first line of its docstring, and after them what Cmds.get_help() returns
catalog ==
    [commands |-> [i \in 1..Len(SelectSeq(ScriptsDir, listed)) |->
                      <<SelectSeq(ScriptsDir, listed)[i],
                        first_doc_line(SelectSeq(ScriptsDir, listed)[i])>>],
     aliases |-> Cmds_get_help]

alias_help(func, target) ==
    IF target.type = "method"
    THEN [events |-> <<>>, raised |-> "TypeError", value |-> <<"None", "">>]
    ELSE Returned(<<>>, <<"alias", JoinWords(target.value)>>)

\* the result is <<"catalog", catalog>> for the full catalog, <<"doc", name>> for
\* the docstring of an attribute of Scripts, <<"alias", command>> for an
\* entry of the alias table and <<"None", "">> for None, which is what a
\* docstring that was not written is and what the built-in help() returns
get_help(args) ==
    IF args = <<>> \/ StartsWithDashes(args[1]) THEN Returned(<<>>, <<"catalog", catalog>>)
    ELSE IF hasattr_Scripts(args[1]) THEN Returned(<<>>, doc_of(args[1]))
    ELSE IF hasattr_Cmds(args[1]) THEN alias_help(args[1], getattr_Cmds(args[1]))
    ELSE Returned(<<<<"pyhelp", args[1], <<>>>>>>, <<"None", "">>)

\* print(result)
printed(result) ==
    IF result.raised # "none" THEN Raises(result.events, result.raised)
    ELSE Ok(result.events \o <<Output(result.value[1], <<result.value[2]>>)>>)

help(args) == printed(get_help(args))

\* ---- the version branch of Scripts._run ----
CheckOutputs(calls) == [i \in 1..Len(calls) |-> <<"check_output", calls[i].cmd, <<>>>>]

version_of(gs) ==
    IF gs.raised # "none"
    THEN Raises(<<Output("Version: ", <<>>)>> \o CheckOutputs(gs.calls), gs.raised)
    ELSE Ok(<<Output("Version: ", <<>>)>> \o CheckOutputs(gs.calls)
            \o <<Output("Git Remote: ", gs.value.remote),
                 Output("Git Branch: ", gs.value.branch),
                 Output("Git Tag: ", gs.value.tag),
                 Output("Git Commit Date: ", gs.value.date)>>)

version(host) == version_of(git_summary(host.git))

\* ---- the alias branch of Scripts._run ----
\* " ".join(value): the tokens of a list, the characters of a str; a bound
\* method cannot be joined
run_alias(target) ==
    IF target.type = "method" THEN Raises(<<Logged(target.value)>>, "TypeError")
    ELSE Ok(<<Logged(target.value), Shell(JoinWords(target.value))>>)

\* ---- Scripts._run and Scripts.__call__ ----
RECURSIVE _run(_, _), call_method(_, _, _)

\* getattr(self, cmd)(args...)
call_method(cmd, args, host) ==
    CASE cmd = "fix" -> fix(args)
      [] cmd = "fmt" -> fmt(args)
      [] cmd = "test" -> test(args, host)
      [] cmd = "toolbox" -> toolbox(args)
      [] cmd = "cli" -> cli(args)
      [] cmd = "enc" -> enc(args)
      [] cmd = "encoder" -> encoder(args)
      [] cmd = "synth" -> synth(args)
      [] cmd = "synthesizer" -> synthesizer(args)
      [] cmd = "_synthesizer_preprocess" -> _synthesizer_preprocess(args)
      [] cmd = "voc" -> voc(args)
      [] cmd = "vocode" -> vocode(args)
      [] cmd = "vocoder" -> vocoder(args)
      [] cmd = "help" -> help(args)
      [] cmd = "get_help" -> After(<<>>, get_help(args))
      [] cmd \in {"_run", "__call__"} -> _run(args, host)
      \* self.__doc__ is a str, which cannot be called
      [] OTHER -> Raises(<<>>, "TypeError")

\* else: self.help(args...)
fallback(cmd, args) == help(args)

run_cmd(cmd, args, host) ==
    IF hasattr_self(cmd) THEN After(<<Branch("method", cmd)>>, call_method(cmd, args, host))
    ELSE IF hasattr_Cmds(cmd) THEN After(<<Branch("alias", cmd)>>, run_alias(getattr_Cmds(cmd)))
    ELSE IF cmd \in {"-v", "--version"} THEN After(<<Branch("version", cmd)>>, version(host))
    ELSE After(<<Branch("help", cmd)>>, fallback(cmd, args))

\* def _run(self, cmd, *args): a call with no argument is a TypeError
_run(args, host) ==
    IF args = <<>> THEN Raises(<<>>, "TypeError")
    ELSE run_cmd(args[1], Tail(args), host)

__call__(args, host) == _run(args, host)

\* sys.argv[1:], with "help" when it is empty
argv_of(argv) == IF argv = <<>> THEN <<"help">> ELSE argv

main(argv, host) == __call__(argv_of(argv), host)

(***************************************************************************)
(* The command lines and hosts of the dispatcher.                          *)
(***************************************************************************)
CmdNames ==
    ScriptsMethods \cup {"__doc__"} \cup Range(CmdsMembers) \cup {"keys", "__name__"}
    \cup {"-v", "--version", "foo", "--foo"}
ArgTokens == {"train", "preprocess", "audio", "embeds", "--no-open", "foo", "test", "jup",
              "keys"}
ArgLists == UNION {[1..n -> ArgTokens] : n \in 0..MaxArgs}
Argvs == {<<>>} \cup {<<c>> \o a : c \in CmdNames, a \in ArgLists}

\* the repository the version branch finds
VersionEnvs ==
    {GitEnv(remote, Value(<<"m", "\n">>),
            Value(GitLogText([hash |-> <<"h", "1">>, merge |-> PyNone, author |-> <<"n">>,
                              date |-> <<"d">>, body |-> <<<<"m">>>>])),
            Value(<<>>), CallFails, CallFails, describe, Value(<<"v", "2", "\n">>)) :
        remote \in RemoteOutcomes, describe \in {CallFails, Value(<<"v", "1", "\n">>)}}

\* the exit code of the test run, the platform, the repository
Hosts == [returncode : {0, 1}, linux : BOOLEAN, git : VersionEnvs]

\* One process is one call of main().
Main ==
    /\ ~cli_done
    /\ \E argv \in Argvs, host \in Hosts :
        LET r == main(argv, host)
        IN  /\ cli_done' = TRUE
            /\ cli_argv' = argv
            /\ cli_host' = host
            /\ cli_events' = r.events
            /\ cli_raised' = r.raised
            /\ UNCHANGED notCLI

InitCLI ==
    /\ cli_done = FALSE
    /\ cli_argv = <<>>
    /\ cli_host = [returncode |-> 0, linux |-> TRUE, git |-> <<>>]
    /\ cli_events = <<>>
    /\ cli_raised = "none"

NextCLI == Main

(***************************************************************************)
(* The panels, the buttons and the progress bar of the window              *)
(* (ui.py:60-149, 388-441).                                                *)
(*                                                                         *)
(* A panel record p holds the fields these methods read and write.         *)
(***************************************************************************)
\* ui.py:56
min_umap_points == 4

\* ui.py:21-42, before the division by 255
colormap ==
    <<<<0, 127, 70>>, <<255, 0, 0>>, <<255, 217, 38>>, <<0, 135, 255>>, <<165, 0, 165>>,
      <<255, 167, 255>>, <<97, 142, 151>>, <<0, 255, 255>>, <<255, 96, 38>>, <<142, 76, 0>>,
      <<33, 0, 127>>, <<0, 0, 0>>, <<183, 183, 183>>, <<76, 255, 0>>>>

\* self.log(line): the line is logged and pending events are processed
log(p, line) == [p EXCEPT !.logs = log_lines(@, line, "newline")]

\* ---- QProgressBar ----
\* setValue: a value outside the range is ignored, unless the range is 0..0
setValue(bar, v) ==
    IF (v > bar.maximum \/ v < bar.minimum) /\ (bar.maximum # 0 \/ bar.minimum # 0)
    THEN bar ELSE [bar EXCEPT !.value = v]

\* setMaximum: a value that falls outside the new range is reset
setMaximum(bar, m) ==
    LET top == IF m < bar.minimum THEN bar.minimum ELSE m
    IN  [bar EXCEPT !.maximum = top,
                    !.value = IF @ < bar.minimum - 1 \/ @ > top THEN bar.minimum - 1 ELSE @]

\* UI.set_loading(value, maximum), for a value given in tenths
set_loading(p, tenths, maximum) ==
    [p EXCEPT !.loading_bar =
                 [setMaximum(setValue(@, tenths * 10), maximum * 100)
                     EXCEPT !.text_visible = tenths # 0]]

\* ---- UI.draw_embed and UI.draw_spec ----
draw_embed(p, embed, name, which) ==
    [p EXCEPT !.panels[which].suptitle = IF embed = PyNone THEN <<>> ELSE name,
              !.panels[which].embed = embed]

\* a variant that sets the vocode button whatever the slot is
draw_spec_any_slot(p, spec, which) ==
    [p EXCEPT !.panels[which].spec = spec, !.vocode = spec # PyNone]

draw_spec(p, spec, which) ==
    [p EXCEPT !.panels[which].spec = spec,
              !.vocode = IF which # "current" THEN spec # PyNone ELSE @]

\* UI.draw_utterance (ui.py:60-62)
draw_utterance(p, utterance, which) ==
    draw_embed(draw_spec(p, utterance.spec, which), utterance.embed, utterance.name, which)

\* ---- UI.draw_umap_projections ----
\* umap_ax.clear()
ClearAxes ==
    [text |-> "", points |-> <<>>, legend |-> PyNone, n_neighbors |-> 0, drawn |-> FALSE]

\* np.unique: the distinct names, sorted; names are compared as the
\* letters of the alphabet they are taken from
Alphabet ==
    <<"a", "b", "c", "d", "e", "f", "g", "h", "i", "j", "k", "l", "m", "n", "o", "p", "q">>
np_unique(ar) == SelectSeq(Alphabet, LAMBDA c : <<c>> \in Range(ar))

speaker_names(utterances) == [i \in 1..Len(utterances) |-> utterances[i].speaker_name]

\* the place of a speaker in np.unique, from 0
index_of(speakers, name) == (CHOOSE i \in 1..Len(speakers) : <<speakers[i]>> = name) - 1

\* int(np.ceil(np.sqrt(n)))
ceil_sqrt(n) == CHOOSE r \in 0..n : r * r >= n /\ \A q \in 0..(r - 1) : q * q < n

\* "_gen_" in name
is_generated(name) == FindFirst(name, Chars("_gen_")) # 0

\* label = None if utterance.speaker_name in speakers_done else speaker_name
label_of(utterances, i) ==
    IF \E j \in 1..(i - 1) : utterances[j].speaker_name = utterances[i].speaker_name
    THEN PyNone ELSE utterances[i].speaker_name

scatter(speakers, utterances, i) ==
    [color |-> colormap[index_of(speakers, utterances[i].speaker_name) + 1],
     marker |-> IF is_generated(utterances[i].name) THEN "x" ELSE "o",
     label |-> label_of(utterances, i)]

\* umap_ax.legend(): one entry for each point that was given a label
legend(points) == SelectSeq([i \in 1..Len(points) |-> points[i].label], LAMBDA l : l # PyNone)

too_few_points(n) ==
    "Add " \o ToStr(str_int(min_umap_points - n)) \o " more points to\ngenerate the projections"

\* the else branch: the projections are computed and drawn
project(p, speakers, utterances) ==
    LET hot == IF p.umap_hot THEN p
               ELSE [log(p, "Drawing UMAP projections for the first time, this will take a few seconds.")
                        EXCEPT !.umap_hot = TRUE]
        points == [i \in 1..Len(utterances) |-> scatter(speakers, utterances, i)]
    IN  [hot EXCEPT !.umap_ax = [text |-> "", points |-> points, legend |-> legend(points),
                                 n_neighbors |-> ceil_sqrt(Len(utterances)),
                                 drawn |-> TRUE]]

draw_umap_projections(p, utterances) ==
    IF p.raised # "none" THEN p
    \* colors = {speaker_name: colormap[i] ...}: colormap has 14 rows
    ELSE IF Len(np_unique(speaker_names(utterances))) > Len(colormap)
    THEN [p EXCEPT !.umap_ax = ClearAxes, !.raised = "IndexError"]
    ELSE IF Len(utterances) < min_umap_points
    THEN [p EXCEPT !.umap_ax = [ClearAxes EXCEPT !.text = too_few_points(Len(utterances)),
                                                 !.drawn = TRUE]]
    ELSE project(p, np_unique(speaker_names(utterances)), utterances)

\* ---- UI.reset_interface ----
RECURSIVE log_blank_lines(_, _)
log_blank_lines(p, n) == IF n = 0 THEN p ELSE log_blank_lines(log(p, ""), n - 1)

\* a variant that leaves the play button as it is
reset_leaving_play(p) ==
    log_blank_lines(
        [set_loading(
             draw_umap_projections(
                 draw_spec(draw_spec(draw_embed(draw_embed(p, PyNone, PyNone, "current"),
                                                PyNone, PyNone, "generated"),
                                     PyNone, "current"),
                           PyNone, "generated"),
                 <<>>),
             0, 1)
            EXCEPT !.generate = FALSE, !.synthesize = FALSE,
                   !.vocode = FALSE, !.replay = FALSE, !.export = FALSE],
        max_log_lines)

reset_interface(p) ==
    log_blank_lines(
        [set_loading(
             draw_umap_projections(
                 draw_spec(draw_spec(draw_embed(draw_embed(p, PyNone, PyNone, "current"),
                                                PyNone, PyNone, "generated"),
                                     PyNone, "current"),
                           PyNone, "generated"),
                 <<>>),
             0, 1)
            EXCEPT !.play = FALSE, !.generate = FALSE, !.synthesize = FALSE,
                   !.vocode = FALSE, !.replay = FALSE, !.export = FALSE],
        max_log_lines)

(***************************************************************************)
(* The handlers of the panels as actions.                                  *)
(***************************************************************************)
Panel ==
    [logs |-> logs, umap_ax |-> umap_ax, umap_hot |-> umap_hot, panels |-> panels,
     play |-> play_enabled, generate |-> generate_enabled, synthesize |-> synthesize_enabled,
     vocode |-> vocode_enabled, replay |-> replay_enabled, export |-> export_enabled,
     loading_bar |-> loading_bar, record_button |-> record_button,
     model_boxes |-> model_boxes, disk |-> disk, stdout |-> <<>>,
     returned |-> PyNone, raised |-> "none"]

\* the widgets as their constructors leave them (ui.py:474-599)
BlankPanel == [suptitle |-> <<>>, embed |-> PyNone, spec |-> PyNone]
Constructed ==
    [logs |-> <<>>, umap_ax |-> ClearAxes, umap_hot |-> FALSE,
     panels |-> [current |-> BlankPanel, generated |-> BlankPanel],
     play |-> TRUE, generate |-> TRUE, synthesize |-> TRUE,
     vocode |-> TRUE, replay |-> TRUE, export |-> TRUE,
     loading_bar |-> [value |-> -1, minimum |-> 0, maximum |-> 100, text_visible |-> TRUE],
     record_button |-> [text |-> "Record", disabled |-> FALSE],
     model_boxes |-> [encoder |-> EmptyBox, synthesizer |-> EmptyBox, vocoder |-> EmptyBox],
     disk |-> {}, stdout |-> <<>>, returned |-> PyNone, raised |-> "none"]

PanelHandled(call, p) ==
    /\ ui_call' = call
    /\ ui_raised' = p.raised
    /\ logs' = p.logs
    /\ log_window' = JoinLines(p.logs)
    /\ umap_ax' = p.umap_ax
    /\ umap_hot' = p.umap_hot
    /\ panels' = p.panels
    /\ play_enabled' = p.play
    /\ generate_enabled' = p.generate
    /\ synthesize_enabled' = p.synthesize
    /\ vocode_enabled' = p.vocode
    /\ replay_enabled' = p.replay
    /\ export_enabled' = p.export
    /\ loading_bar' = p.loading_bar
    /\ record_button' = p.record_button
    /\ model_boxes' = p.model_boxes
    /\ disk' = p.disk
    /\ stdout' = p.stdout
    /\ returned' = p.returned
    /\ panel_calls' = panel_calls + 1
    /\ UNCHANGED <<utterance_history, history_index, registered>>
    /\ UNCHANGED <<user_name_input, record_name_input, datasets_root, dataset_box,
                   speaker_box, utterance_box, disabled_widgets, stderr, fs, handler_calls>>
    /\ UNCHANGED notUI

\* ---- the working sets of utterances the projection view is given ----
\* an utterance that was recorded, and one that was synthesized
Utterance(speaker, i, generated) ==
    [name |-> <<speaker>> \o (IF generated THEN Chars("_gen_") ELSE Chars("@rec"))
              \o record_number(i),
     speaker_name |-> <<speaker>>]

\* n utterances of k speakers in turn, the first speaker the first or the
\* last of the alphabet; every g-th utterance was synthesized
WorkingSet(n, k, backwards, g) ==
    [i \in 1..n |->
        Utterance(Alphabet[IF backwards THEN k - ((i - 1) % k) ELSE 1 + ((i - 1) % k)],
                  i, g > 0 /\ i % g = 0)]

\* few speakers, or one more than there are colours
SpeakerCounts == {1, 2, MaxSpeakers - 1, MaxSpeakers}

WorkingSets(sizes) ==
    {WorkingSet(n, k, backwards, g) :
        n \in sizes, k \in SpeakerCounts, backwards \in BOOLEAN, g \in 0..2}

DrawUmapProjections(sizes) ==
    /\ ui_raised = "none"
    /\ panel_calls < MaxPanelCalls
    /\ \E utterances \in WorkingSets(sizes) :
          PanelHandled(<<"draw_umap_projections", utterances>>,
                       draw_umap_projections(Panel, utterances))

\* after UI.__init__: the widgets as constructed, then reset_interface
InitPanel ==
    /\ umap_ax = reset_interface(Constructed).umap_ax
    /\ umap_hot = FALSE
    /\ panels = reset_interface(Constructed).panels
    /\ vocode_enabled = FALSE
    /\ replay_enabled = FALSE
    /\ export_enabled = FALSE
    /\ loading_bar = reset_interface(Constructed).loading_bar
    /\ record_button = Constructed.record_button
    /\ model_boxes = Constructed.model_boxes
    /\ disk = {}
    /\ returned = PyNone
    /\ panel_calls = 0

NextProjection == DrawUmapProjections(0..MaxUtterances)

(***************************************************************************)
(* UI.save_audio_file (ui.py:141-149).                                     *)
(***************************************************************************)
\* Path(fpath).name: what follows the last slash, slashes at the end of
\* the path left aside
RECURSIVE path_name(_)
path_name(fpath) ==
    IF fpath # <<>> /\ fpath[Len(fpath)] = "/" THEN path_name(SubSeq(fpath, 1, Len(fpath) - 1))
    ELSE Split(fpath, <<"/">>)[Len(Split(fpath, <<"/">>))]

\* sf.write(fpath, wav, sample_rate): the file at the path is replaced
sf_write(files, fpath, wav, sample_rate) ==
    {f \in files : f.path # fpath}
    \cup {[path |-> fpath, wav |-> wav, sample_rate |-> sample_rate]}

\* a variant that looks for a dot anywhere in the path
extension_anywhere(fpath) == IF "." \in Range(fpath) THEN <<".">> ELSE <<>>

\* Path(fpath).suffix
path_suffix(fpath) == suffix(path_name(fpath))

\* fpath is what the dialog returned: the empty text when it was cancelled
save_audio_file(p, fpath, wav, sample_rate) ==
    IF fpath = <<>> THEN p
    ELSE IF path_suffix(fpath) = <<>>
    THEN [p EXCEPT !.disk = sf_write(@, fpath \o txt_wav, wav, sample_rate)]
    ELSE [p EXCEPT !.disk = sf_write(@, fpath, wav, sample_rate)]

\* the paths the operator chooses in the dialog
ChosenPaths ==
    {<<>>, Chars("/tmp/myout"), Chars("/tmp/out.wav"), Chars("/tmp/out.flac"),
     Chars("/tmp/v1.2/out"), Chars("/tmp/.hidden"), Chars("/tmp/a.b.wav"),
     Chars("/tmp/myout.wav"), Chars("/tmp/a.b.")}
Waveforms == {"wav1", "wav2"}

SaveAudioFile ==
    /\ ui_raised = "none"
    /\ panel_calls < MaxPanelCalls
    /\ \E fpath \in ChosenPaths, wav \in Waveforms :
          PanelHandled(<<"save_audio_file", fpath, wav>>,
                       save_audio_file(Panel, fpath, wav, 16000))

NextExport == SaveAudioFile

(***************************************************************************)
(* UI.populate_models (ui.py:353-369).                                     *)
(***************************************************************************)
\* models_dir.glob("*/<filename>"), as (f.parent.name, f) pairs: the entries
\* of that name in the directories of models_dir, in the order of the directories
RECURSIVE glob_one_down(_, _)
glob_one_down(entries, filename) ==
    IF entries = <<>> THEN <<>>
    ELSE (IF entries[1].dir /\ Child(entries[1], filename).exists
          THEN <<<<entries[1].name, entries[1].name \o <<"/">> \o filename>>>>
          ELSE <<>>)
         \o glob_one_down(Tail(entries), filename)

\* a variant that offers the files only
vocoder_files_only(found) == found

\* [(f.parent.name, f) for f in vocoder_fpaths] + [("Griffin-Lim", None)]
vocoder_items(found) == found \o <<<<Chars("Griffin-Lim"), PyNone>>>>

populate_models(p, models_dir) ==
    IF glob_one_down(models_dir.entries, Chars("encoder.pt")) = <<>>
    THEN Fails(p, "Exception")
    ELSE IF glob_one_down(models_dir.entries, Chars("synthesizer.pt")) = <<>>
    THEN [p EXCEPT !.raised = "Exception",
                   !.model_boxes.encoder =
                       repopulate_box(glob_one_down(models_dir.entries, Chars("encoder.pt")),
                                      FALSE, 0)]
    ELSE [p EXCEPT !.model_boxes =
                      [encoder |->
                           repopulate_box(glob_one_down(models_dir.entries,
                                                        Chars("encoder.pt")), FALSE, 0),
                       synthesizer |->
                           repopulate_box(glob_one_down(models_dir.entries,
                                                        Chars("synthesizer.pt")), FALSE, 0),
                       vocoder |->
                           repopulate_box(
                               vocoder_items(glob_one_down(models_dir.entries,
                                                           Chars("vocoder.pt"))),
                               FALSE, 0)]]

\* ---- the models directories ----
ModelFiles == {Chars("encoder.pt"), Chars("synthesizer.pt"), Chars("vocoder.pt")}
\* a directory of a model holds any of the three files, in this order
ModelDir(name, present) ==
    Dir(name, 1, SelectSeq(<<File(Chars("encoder.pt")), File(Chars("synthesizer.pt")),
                             File(Chars("vocoder.pt"))>>,
                           LAMBDA f : f.name \in present))
\* two model directories; the three files in the models directory itself,
\* or two levels down; no models directory
ModelsDirs ==
    {Dir(Chars("models"), 1, <<ModelDir(Chars("m1"), a), ModelDir(Chars("m2"), b)>>) :
        a \in SUBSET ModelFiles, b \in SUBSET ModelFiles}
    \cup {Dir(Chars("models"), 1, ModelDir(Chars("m1"), ModelFiles).entries),
          Dir(Chars("models"), 1, <<Dir(Chars("d"), 1, <<ModelDir(Chars("m1"), ModelFiles)>>)>>),
          Missing}

PopulateModels ==
    /\ ui_raised = "none"
    /\ panel_calls < MaxPanelCalls
    /\ \E models_dir \in ModelsDirs :
          PanelHandled(<<"populate_models", models_dir>>, populate_models(Panel, models_dir))

NextModels == PopulateModels

(***************************************************************************)
(* UI.record_one (ui.py:209-233).  The sound device either records or      *)
(* raises; sd.stop() and sd.wait() ignore the errors of the device.        *)
(***************************************************************************)
\* for i in np.arange(0, duration, 0.1): set_loading(i, duration); sleep(0.1)
RECURSIVE wait_loop(_, _, _)
wait_loop(p, k, duration) ==
    IF k >= 10 * duration THEN p
    ELSE wait_loop(set_loading(p, k, duration), k + 1, duration)

\* the samples sd.rec returns, squeezed
Recorded(sample_rate, duration) == <<"wav", duration * sample_rate>>

record_one(p, sample_rate, duration, device) ==
    LET started == log([p EXCEPT !.record_button = [text |-> "Recording...",
                                                    disabled |-> TRUE]],
                       "Recording " \o ToStr(str_int(duration)) \o " seconds of audio")
    IN  IF device # "connected"
        THEN [log(log([started EXCEPT !.stdout = Append(@, "PortAudioError")],
                      "Could not record anything. Is your recording device enabled?"),
                  "Your device must be connected before you start the toolbox.")
                EXCEPT !.returned = PyNone]
        ELSE [log(set_loading(wait_loop(started, 0, duration), 10 * duration, duration),
                  "Done recording.")
                EXCEPT !.record_button = [text |-> "Record", disabled |-> FALSE],
                       !.returned = Recorded(sample_rate, duration)]

(***************************************************************************)
(* The handlers of the panels, in any order.                               *)
(***************************************************************************)
Durations == {1, 2}
Devices == {"connected", "missing"}

\* the call is recorded with its arguments and the state of the input device
RecordOne ==
    /\ ui_raised = "none"
    /\ panel_calls < MaxPanelSteps
    /\ \E duration \in Durations, device \in Devices :
          PanelHandled(<<"record_one", 16000, duration, device>>,
                       record_one(Panel, 16000, duration, device))

ResetInterface ==
    /\ ui_raised = "none"
    /\ panel_calls < MaxPanelSteps
    /\ PanelHandled(<<"reset_interface">>, reset_interface(Panel))

DrawSpec ==
    /\ ui_raised = "none"
    /\ panel_calls < MaxPanelSteps
    /\ \E spec \in {PyNone, <<"mel">>}, which \in {"current", "generated"} :
          PanelHandled(<<"draw_spec", spec, which>>, draw_spec(Panel, spec, which))

\* an utterance with or without a spectrogram
DrawUtterance ==
    /\ ui_raised = "none"
    /\ panel_calls < MaxPanelSteps
    /\ \E spec \in {PyNone, <<"mel">>}, which \in {"current", "generated"} :
          PanelHandled(<<"draw_utterance", spec, which>>,
                       draw_utterance(Panel, [name |-> Chars("a@rec01"), spec |-> spec,
                                              embed |-> <<"embed">>], which))

SetLoading ==
    /\ ui_raised = "none"
    /\ panel_calls < MaxPanelSteps
    /\ \E tenths \in {0, 10, 25}, maximum \in {1, 2} :
          PanelHandled(<<"set_loading", tenths, maximum>>,
                       set_loading(Panel, tenths, maximum))

DrawFewProjections == DrawUmapProjections({0, 1})

RegisterFew ==
    /\ registered < MaxPanelSteps
    /\ RegisterUtterance

\* The controller of the toolbox enables the replay and export buttons when
\* it has vocoded a waveform; its code is not part of the window.
ResultReady ==
    /\ ui_raised = "none"
    /\ panel_calls < MaxPanelSteps
    /\ PanelHandled(<<"result_ready">>, [Panel EXCEPT !.replay = TRUE, !.export = TRUE])

NextPanel ==
    \/ ResetInterface
    \/ RecordOne
    \/ DrawSpec
    \/ DrawUtterance
    \/ SetLoading
    \/ DrawFewProjections
    \/ RegisterFew
    \/ ResultReady

\* the projection view and the reset, in any order
NextNotice ==
    \/ DrawUmapProjections({0, min_umap_points - 1, min_umap_points, MaxSpeakers})
    \/ ResetInterface

(***************************************************************************)
(* The audio devices (ui.py:151-195).  A device that sd.query_devices()    *)
(* lists is its name and whether sd.check_input_settings and               *)
(* sd.check_output_settings accept it at the sample rate.                  *)
(***************************************************************************)
DeviceNames == {Chars("mic"), Chars("spk")}
Devices_listed ==
    UNION {[1..n -> [name : DeviceNames, input : BOOLEAN, output : BOOLEAN]] :
              n \in 0..MaxDevices}

\* input_devices and output_devices, in the order of the listing
input_devices(devices) ==
    [i \in 1..Len(SelectSeq(devices, LAMBDA d : d.input)) |->
        SelectSeq(devices, LAMBDA d : d.input)[i].name]
output_devices(devices) ==
    [i \in 1..Len(SelectSeq(devices, LAMBDA d : d.output)) |->
        SelectSeq(devices, LAMBDA d : d.output)[i].name]

\* warn(...) for every device that is neither a valid output nor a valid input
unsupported(devices) ==
    [i \in 1..Len(SelectSeq(devices, LAMBDA d : ~d.output /\ ~d.input)) |->
        Chars("Unsupported output device ")
        \o SelectSeq(devices, LAMBDA d : ~d.output /\ ~d.input)[i].name]

\* QComboBox.addItems: an empty box selects its first item
addItems(box, texts) ==
    [box EXCEPT !.items = @ \o texts,
                !.index = IF @ = -1 /\ texts # <<>> THEN 0 ELSE @]

\* a variant that hands the text of the selector to the sound library as it is
device_pair_of_text(in_device, box) == <<in_device, currentText(box)>>

\* UI.set_audio_device: the pair it writes to sd.default.device
device_pair(in_device, box) ==
    <<in_device, IF currentText(box) = Chars("None") THEN PyNone ELSE currentText(box)>>

\* UI.setup_audio_devices, called once by the controller
SetupAudioDevices ==
    /\ ui_raised = "none"
    /\ audio_in_device = <<"unset">>
    /\ \E devices \in Devices_listed :
          LET in_device == IF input_devices(devices) = <<>> THEN PyNone
                           ELSE input_devices(devices)[1]
              no_input == IF input_devices(devices) = <<>>
                          THEN log_lines(logs, "No audio input device detected. Recording may not work.",
                                         "newline")
                          ELSE logs
              box == IF output_devices(devices) = <<>>
                     THEN [addItems(audio_out_devices_cb, <<Chars("None")>>)
                              EXCEPT !.disabled = TRUE]
                     ELSE addItems([audio_out_devices_cb EXCEPT !.items = <<>>, !.index = -1],
                                   output_devices(devices))
          IN  /\ sd_devices' = devices
              /\ audio_in_device' = in_device
              /\ logs' = IF output_devices(devices) = <<>>
                         THEN log_lines(no_input,
                                        "No supported output audio devices were found! Audio output may not work.",
                                        "newline")
                         ELSE no_input
              /\ log_window' = JoinLines(logs')
              /\ audio_out_devices_cb' = box
              /\ sd_default_device' = device_pair(in_device, box)
              /\ stderr' = stderr \o unsupported(devices)
              /\ ui_call' = <<"setup_audio_devices">>
    /\ UNCHANGED <<historyVars, ui_raised, panelVars, sd_calls, sd_playing, notAudio>>
    /\ UNCHANGED <<user_name_input, record_name_input, datasets_root, dataset_box, speaker_box,
                   utterance_box, disabled_widgets, stdout, fs, handler_calls>>

\* the operator picks another item of the selector: currentTextChanged calls
\* set_audio_device when the text is another one (ui.py:184)
SelectOutputDevice ==
    /\ ui_raised = "none"
    /\ audio_in_device # <<"unset">>
    /\ ~audio_out_devices_cb.disabled
    /\ \E i \in 0..(Len(audio_out_devices_cb.items) - 1) :
          /\ i # audio_out_devices_cb.index
          /\ audio_out_devices_cb' = [audio_out_devices_cb EXCEPT !.index = i]
          /\ sd_default_device' =
                IF currentText(audio_out_devices_cb') # currentText(audio_out_devices_cb)
                THEN device_pair(audio_in_device, audio_out_devices_cb')
                ELSE sd_default_device
          /\ ui_call' = <<"select_output_device", i>>
    /\ UNCHANGED <<audio_in_device, sd_devices, sd_calls, sd_playing>>
    /\ UNCHANGED <<historyVars, logs, log_window, ui_raised, browserVars, panelVars, notAudio>>

\* before setup_audio_devices: no audio_in_device attribute, an empty selector
\* (ui.py:520) and the default pair of the sound library
InitAudio ==
    /\ sd_devices = <<>>
    /\ audio_in_device = <<"unset">>
    /\ audio_out_devices_cb = EmptyBox
    /\ sd_default_device = <<Chars("-1"), Chars("-1")>>
    /\ sd_calls = <<>>
    /\ sd_playing = "nothing"

NextAudio ==
    \/ SetupAudioDevices
    \/ SelectOutputDevice

(***************************************************************************)
(* UI.play (ui.py:197-204).  sd.stop() and sd.play() either work or raise; *)
(* sd_calls holds the calls of the sound library the handler made.         *)
(***************************************************************************)
Outcomes == {"works", "raises"}

\* a variant that starts the new playback over the old one
calls_of_play_without_stop(wav, stop, start) ==
    IF stop = "raises" THEN <<>> ELSE <<<<"play", wav>>>>

\* try: sd.stop(); sd.play(wav, sample_rate)
calls_of_play(wav, stop, start) ==
    IF stop = "raises" THEN <<<<"stop">>>> ELSE <<<<"stop">>, <<"play", wav>>>>

\* except Exception as e: print(e) and two lines in the log
play_failed(buffer) ==
    log_lines(log_lines(buffer,
                        "Error in audio playback. Try selecting a different audio output device.",
                        "newline"),
              "Your device must be connected before you start the toolbox.", "newline")

Play ==
    /\ ui_raised = "none"
    /\ panel_calls < MaxPanelSteps
    /\ \E wav \in {"wav1", "wav2"}, stop \in Outcomes, start \in Outcomes :
          /\ stop = "raises" => start = "works"
          /\ sd_calls' = calls_of_play(wav, stop, start)
          /\ sd_playing' = IF stop = "raises" THEN sd_playing
                           ELSE IF start = "raises" THEN "nothing" ELSE wav
          /\ logs' = IF stop = "raises" \/ start = "raises" THEN play_failed(logs) ELSE logs
          /\ stdout' = IF stop = "raises" \/ start = "raises"
                       THEN Append(stdout, "PortAudioError") ELSE stdout
          /\ ui_call' = <<"play", wav, stop, start>>
    /\ log_window' = JoinLines(logs')
    /\ panel_calls' = panel_calls + 1
    /\ UNCHANGED <<umap_ax, umap_hot, panels, vocode_enabled, replay_enabled, export_enabled,
                   loading_bar, record_button, model_boxes, disk, returned>>
    /\ UNCHANGED <<user_name_input, record_name_input, datasets_root, dataset_box, speaker_box,
                   utterance_box, disabled_widgets, stderr, fs, handler_calls>>
    /\ UNCHANGED <<historyVars, ui_raised, sd_devices, audio_in_device, audio_out_devices_cb,
                   sd_default_device, notAudio>>

NextPlayback ==
    \/ Play
    \/ RegisterFew
    \/ DrawSpec
    \/ ResultReady
    \/ ResetInterface

\* everything that writes to the log buffer, in any order
\* (one log call between two handlers)
NextLog ==
    \/ ui_call[1] # "log" /\ Log
    \/ panel_calls < MaxLogSteps /\ ResetInterface
    \/ panel_calls < MaxLogSteps /\ RecordOne
    \/ panel_calls < MaxLogSteps /\ Play
    \/ panel_calls < MaxLogSteps /\ DrawUmapProjections({0, min_umap_points})

(***************************************************************************)
(* The event loop.  A callback is a frame on the call stack of the GUI     *)
(* thread: the method that runs, where it is, and its loop counter.  What  *)
(* the operator types is queued until the event loop, or a call of         *)
(* app.processEvents() inside a callback (ui.py:400, 406), delivers it:    *)
(* delivering a text edit calls the connected handler at once, whatever    *)
(* is on the stack (ui.py:500).                                            *)
(***************************************************************************)
Frame(name, pc, k, arg) == [name |-> name, pc |-> pc, k |-> k, arg |-> arg]

\* the frame that runs
Top == call_stack[Len(call_stack)]
Pop == SubSeq(call_stack, 1, Len(call_stack) - 1)
Goto(pc) == [call_stack EXCEPT ![Len(call_stack)].pc = pc]

\* where record_one is inside app.processEvents()
PumpPoints == {"log_start", "log_cause", "log_reminder", "loading", "loaded", "log_done"}

Executing(name) == call_stack # <<>> /\ Top.name = name /\ ui_raised = "none"

\* what the steps of a callback leave alone
BrowserKept ==
    UNCHANGED <<user_name_input, record_name_input, datasets_root, dataset_box, speaker_box,
                utterance_box, disabled_widgets, stderr, fs, handler_calls>>
PanelKept ==
    UNCHANGED <<umap_ax, umap_hot, panels, vocode_enabled, replay_enabled, export_enabled,
                model_boxes, disk, panel_calls>>

\* the operator edits the user name while anything, or nothing, runs
TypeUserName ==
    /\ ui_raised = "none"
    /\ Len(pending_events) < MaxPending
    /\ handler_calls + Len(pending_events) < MaxHandlerCalls
    /\ \E text \in TypedUserNames :
          pending_events' = Append(pending_events, <<"textEdited", text>>)
    /\ UNCHANGED <<call_stack, uiVars, browserVars, panelVars, notWindow>>

\* the first pending event is delivered: the field takes the text and emits
\* textEdited, which enters user_name_input_changed
Deliver ==
    /\ pending_events # <<>>
    /\ pending_events' = Tail(pending_events)
    /\ user_name_input' = pending_events[1][2]
    /\ call_stack' = Append(call_stack, Frame("user_name_input_changed", "body", 0, <<>>))
    /\ UNCHANGED <<record_name_input, datasets_root, dataset_box, speaker_box, utterance_box,
                   disabled_widgets, stdout, stderr, fs, handler_calls>>
    /\ UNCHANGED <<uiVars, panelVars, notWindow>>

\* app.exec_(): the event loop delivers when no callback runs (ui.py:617-618)
EventLoop ==
    /\ ui_raised = "none"
    /\ call_stack = <<>>
    /\ Deliver

\* app.processEvents() inside log and set_loading, called by record_one
ProcessEvents ==
    /\ Executing("record_one")
    /\ Top.pc \in PumpPoints
    /\ Deliver

\* the body of user_name_input_changed, and its return
UserNameInputChanged ==
    /\ Executing("user_name_input_changed")
    /\ \E files \in FilesFound :
          LET w == user_name_input_changed(Window, files)
          IN  /\ record_name_input' = w.record_name
              /\ disabled_widgets' = w.disabled
              /\ stdout' = w.stdout
              /\ stderr' = w.stderr
              /\ ui_raised' = w.raised
              /\ fs' = files
    /\ ui_call' = <<"user_name_input_changed">>
    /\ handler_calls' = handler_calls + 1
    /\ call_stack' = Pop
    /\ UNCHANGED <<user_name_input, datasets_root, dataset_box, speaker_box, utterance_box>>
    /\ UNCHANGED <<historyVars, logs, log_window, pending_events, panelVars, notWindow>>

\* a callback of the controller calls record_one, when the events before it
\* have been delivered
RecordOneCalled ==
    /\ ui_raised = "none"
    /\ call_stack = <<>>
    /\ pending_events = <<>>
    /\ panel_calls < MaxPanelCalls
    /\ ~record_button.disabled
    /\ \E duration \in {1} :
          call_stack' = <<Frame("record_one", "begin", 0, duration)>>
    /\ panel_calls' = panel_calls + 1
    /\ UNCHANGED <<umap_ax, umap_hot, panels, vocode_enabled, replay_enabled, export_enabled,
                   loading_bar, record_button, model_boxes, disk, returned>>
    /\ UNCHANGED <<pending_events, uiVars, browserVars, notWindow>>

\* record_one up to its next call of processEvents, or to its return; inside
\* processEvents it goes on when nothing is pending
RecordOneStep ==
    /\ Executing("record_one")
    /\ Top.pc \in PumpPoints => pending_events = <<>>
    /\ LET pc == Top.pc
           duration == Top.arg
           Logs(line, next) ==
               /\ logs' = log_lines(logs, line, "newline")
               /\ log_window' = JoinLines(logs')
               /\ call_stack' = Goto(next)
           Quiet == UNCHANGED <<logs, log_window>>
       IN  CASE pc = "begin" ->
                   /\ record_button' = [text |-> "Recording...", disabled |-> TRUE]
                   /\ Logs("Recording " \o ToStr(str_int(duration)) \o " seconds of audio",
                             "log_start")
                   /\ UNCHANGED <<loading_bar, returned, stdout, ui_call>>
             [] pc = "log_start" ->
                   \* sd.rec records, or raises
                   /\ \E device \in Devices :
                         IF device = "connected"
                         THEN /\ call_stack' = Goto("loop")
                              /\ UNCHANGED <<logs, log_window, stdout>>
                         ELSE /\ stdout' = Append(stdout, "PortAudioError")
                              /\ Logs("Could not record anything. Is your recording device enabled?",
                                        "log_cause")
                   /\ UNCHANGED <<loading_bar, record_button, returned, ui_call>>
             [] pc = "log_cause" ->
                   /\ Logs("Your device must be connected before you start the toolbox.",
                             "log_reminder")
                   /\ UNCHANGED <<loading_bar, record_button, returned, stdout, ui_call>>
             [] pc = "log_reminder" ->
                   /\ returned' = PyNone
                   /\ ui_call' = <<"record_one", 16000, duration, "missing">>
                   /\ call_stack' = Pop
                   /\ Quiet
                   /\ UNCHANGED <<loading_bar, record_button, stdout>>
             [] pc = "loop" ->
                   /\ IF Top.k < 10 * duration
                      THEN /\ loading_bar' = set_loading(Panel, Top.k, duration).loading_bar
                           /\ call_stack' = Goto("loading")
                      ELSE /\ loading_bar' =
                                 set_loading(Panel, 10 * duration, duration).loading_bar
                           /\ call_stack' = Goto("loaded")
                   /\ Quiet
                   /\ UNCHANGED <<record_button, returned, stdout, ui_call>>
             [] pc = "loading" ->
                   \* sleep(0.1)
                   /\ call_stack' = [call_stack EXCEPT ![Len(call_stack)].pc = "loop",
                                                       ![Len(call_stack)].k = @ + 1]
                   /\ Quiet
                   /\ UNCHANGED <<loading_bar, record_button, returned, stdout, ui_call>>
             [] pc = "loaded" ->
                   /\ Logs("Done recording.", "log_done")
                   /\ UNCHANGED <<loading_bar, record_button, returned, stdout, ui_call>>
             [] pc = "log_done" ->
                   /\ record_button' = [text |-> "Record", disabled |-> FALSE]
                   /\ returned' = Recorded(16000, duration)
                   /\ ui_call' = <<"record_one", 16000, duration, "connected">>
                   /\ call_stack' = Pop
                   /\ Quiet
                   /\ UNCHANGED <<loading_bar, stdout>>
    /\ BrowserKept
    /\ PanelKept
    /\ UNCHANGED <<historyVars, ui_raised, pending_events, notWindow>>

InitEvents ==
    /\ call_stack = <<>>
    /\ pending_events = <<>>

NextEvents ==
    \/ TypeUserName
    \/ EventLoop
    \/ ProcessEvents
    \/ UserNameInputChanged
    \/ RecordOneCalled
    \/ RecordOneStep

Init ==
    InitUI /\ InitBrowser /\ InitPanel /\ InitGit /\ InitCLI /\ InitEnum /\ InitEvents
    /\ InitAudio /\ InitBox

SpecUI == Init /\ [][NextUI]_vars

SpecGit == Init /\ [][NextGit]_vars

SpecCLI == Init /\ [][NextCLI]_vars

SpecRecordName == Init /\ [][NextRecordName]_vars

SpecProjection == Init /\ [][NextProjection]_vars

SpecEvents == Init /\ [][NextEvents]_vars

SpecNotice == Init /\ [][NextNotice]_vars

SpecAudio == Init /\ [][NextAudio]_vars

SpecLog == Init /\ [][NextLog]_vars

SpecBox == Init /\ [][NextBox]_vars

SpecBrowser == Init /\ [][NextBrowser]_vars

SpecPlayback == Init /\ [][NextPlayback]_vars

SpecPanel == Init /\ [][NextPanel]_vars

SpecModels == Init /\ [][NextModels]_vars

SpecEnum == Init /\ [][NextEnum]_vars

SpecExport == Init /\ [][NextExport]_vars

(***************************************************************************)
(* Properties of the toolbox window.                                       *)
(***************************************************************************)
\* C1: after any sequence of register_utterance calls the history holds at
\* most 20 entries, the most recently registered utterance is at index 0
\* and is the current selection, the entries are in most-recent-first
\* order, and the entries dropped are the oldest ones: the history is
\* exactly the last min(n, 20) registered utterances, newest first.
C1_HistoryBoundedNewestFirst ==
    /\ Len(utterance_history) <= max_saved_utterances
    /\ Len(utterance_history) = Min(registered, max_saved_utterances)
    /\ \A i \in 1..Len(utterance_history) :
          utterance_history[i] = registered - (i - 1)
    /\ registered > 0 =>
          /\ history_index = 0
          /\ utterance_history[history_index + 1] = registered

\* C1 witness: more than 20 utterances were registered, and the two oldest
\* have left a full history.
C1_Witness ==
    /\ registered = max_saved_utterances + 2
    /\ Len(utterance_history) = max_saved_utterances
    /\ utterance_history[max_saved_utterances] = 3
    /\ utterance_history[1] = registered

\* C2: the log buffer never holds more than 5 lines; a newline call puts the
\* line at the end and, when that would make 6 lines, drops the first
\* (oldest) line and keeps the others in order; append and overwrite leave
\* the number of lines and every line but the last alone, the last line
\* becoming itself followed by the text (append) or the text (overwrite).
C2_NewlineStep ==
    ui_call' = <<"log", "newline">> =>
        \E line \in LogLines :
            /\ logs'[Len(logs')] = line
            /\ IF Len(logs) + 1 > max_log_lines
               THEN /\ Len(logs') = max_log_lines
                    /\ \A i \in 1..(Len(logs) - 1) : logs'[i] = logs[i + 1]
               ELSE /\ Len(logs') = Len(logs) + 1
                    /\ \A i \in 1..Len(logs) : logs'[i] = logs[i]

C2_LastLineStep ==
    ui_call' \in {<<"log", "append">>, <<"log", "overwrite">>} =>
        /\ Len(logs') = Len(logs)
        /\ \A i \in 1..(Len(logs) - 1) : logs'[i] = logs[i]
        /\ \E line \in LogLines :
              logs'[Len(logs')] =
                  IF ui_call'[2] = "append" THEN logs[Len(logs)] \o line ELSE line

C2_LogBufferBoundedInOrder ==
    /\ [](Len(logs) <= max_log_lines)
    /\ [][C2_NewlineStep /\ C2_LastLineStep]_vars

\* C2 witness: three lines were logged one after the other and the last one
\* was extended in place; the blank lines logged before them were dropped.
C2_Witness ==
    /\ logs = <<"", "", "a", "b", "a">>
    /\ ui_call = <<"log", "append">>

(***************************************************************************)
(* Properties of the version-control helper.                               *)
(***************************************************************************)
CallFailed(i) == git_calls[i].raised # "none"

\* C7: git_latest_tag never lets a failure of the source-control command
\* out: nothing is raised, and whenever one of the calls it made failed, or
\* the first call printed only blanks, the result is the empty string.
C7_LatestTagSwallowsFailure ==
    git_op = "git_latest_tag" =>
        /\ git_raised = "none"
        /\ (\/ \E i \in 1..Len(git_calls) : CallFailed(i)
            \/ (~CallFailed(1) /\ Strip(git_calls[1].out) = <<>>))
           => git_tag = <<>>

\* C7 witness: the first call printed a tag, the second call failed, and
\* the empty string was returned.
C7_Witness ==
    /\ git_op = "git_latest_tag"
    /\ Len(git_calls) = 2
    /\ ~CallFailed(1)
    /\ CallFailed(2)
    /\ git_tag = <<>>
    /\ git_raised = "none"

\* the place of a command in the order remote, branch, commit info, diff,
\* latest tag
QueryRank(cmd) ==
    CASE cmd = cmd_remote -> 1
      [] cmd = cmd_branch -> 2
      [] cmd = cmd_log -> 3
      [] cmd = cmd_name_status -> 4
      [] cmd \in {cmd_describe, cmd_describe_latest} -> 5
      [] OTHER -> 4

SummaryFields ==
    {"remote", "branch", "tag", "commit", "merge", "author", "date", "message", "diff"}

\* C8: git_summary issues its queries in the order remote, branch, commit
\* info, diff, latest tag, none of the first three twice and none left out
\* before a later one; a failed call of the first four is the last call
\* made, its failure is raised and no summary is returned; when none of
\* those failed a record with every field is returned, and its tag is the
\* empty string when a latest-tag call failed.
C8_SummaryOrderAndFailures ==
    git_op = "git_summary" =>
        /\ git_calls # <<>> /\ QueryRank(git_calls[1].cmd) = 1
        /\ \A i \in 1..(Len(git_calls) - 1) :
              /\ QueryRank(git_calls[i].cmd) <= QueryRank(git_calls[i + 1].cmd)
              /\ QueryRank(git_calls[i + 1].cmd) <= QueryRank(git_calls[i].cmd) + 1
              /\ QueryRank(git_calls[i].cmd) < 4 =>
                    QueryRank(git_calls[i].cmd) < QueryRank(git_calls[i + 1].cmd)
        /\ \A i \in 1..Len(git_calls) :
              CallFailed(i) /\ QueryRank(git_calls[i].cmd) <= 4 =>
                  /\ i = Len(git_calls)
                  /\ git_raised = "CalledProcessError"
                  /\ git_summary_value = PyNone
        /\ (\A i \in 1..Len(git_calls) :
                CallFailed(i) => QueryRank(git_calls[i].cmd) = 5) =>
              /\ git_raised = "none"
              /\ DOMAIN git_summary_value = SummaryFields
              /\ \E i \in 1..Len(git_calls) : QueryRank(git_calls[i].cmd) = 5
              /\ (\E i \in 1..Len(git_calls) : CallFailed(i)) =>
                    git_summary_value.tag = <<>>

\* C8 witness: two files had changed, every query of the first four
\* succeeded, the second latest-tag call failed, and a summary with an
\* empty tag and both files came back.
C8_Witness ==
    /\ git_op = "git_summary"
    /\ git_raised = "none"
    /\ Len(git_calls) = 8
    /\ CallFailed(8)
    /\ git_summary_value.tag = <<>>
    /\ Len(git_summary_value.diff) = 2

\* C8 witness of the other half: the per-file diff call failed and the
\* failure came out of git_summary.
C8_WitnessPropagated ==
    /\ git_op = "git_summary"
    /\ git_raised = "CalledProcessError"
    /\ Len(git_calls) = 5
    /\ git_summary_value = PyNone

\* the text of a line after the prefix it begins with
Rest(line, prefix) == SubSeq(line, Len(prefix) + 1, Len(line))

InputLines == SplitLines(git_log_input)

FieldsFrom(first) ==
    /\ StartsWith(InputLines[first], txt_author)
    /\ git_info.author = Strip(Rest(InputLines[first], txt_author))
    /\ StartsWith(InputLines[first + 1], txt_date)
    /\ git_info.date = Strip(Rest(InputLines[first + 1], txt_date))
    /\ git_info.message =
          Strip(Join(SubSeq(InputLines, first + 2, Len(InputLines)), <<"\n">>))

\* C9: for a commit log whose first line is "commit <hash>",
\* interpret_commit_log returns that hash; when the second line does not
\* begin with "Merge: ", merge is False and author, date and message come
\* from line 2, line 3 and lines 4 onward; when it does, merge is the text
\* after that prefix and they come from line 3, line 4 and lines 5 onward.
C9_CommitLogFields ==
    git_op = "interpret_commit_log" =>
        /\ git_raised = "none"
        /\ StartsWith(InputLines[1], txt_commit)
        /\ git_info.commit = Rest(InputLines[1], txt_commit)
        /\ IF StartsWith(InputLines[2], txt_merge)
           THEN /\ git_info.merge = Strip(Rest(InputLines[2], txt_merge))
                /\ FieldsFrom(3)
           ELSE /\ git_info.merge = PyFalse
                /\ FieldsFrom(2)

\* C9 witness: a merge commit with a two-line message, the second of which
\* begins with "Merge: " itself, was interpreted.
C9_Witness ==
    /\ git_op = "interpret_commit_log"
    /\ git_info.merge = <<"a", " ", "b">>
    /\ git_info.author = <<"n", " ", "<", "e", ">">>
    /\ git_info.message = <<"m", "\n", " ", " ", " ", " ">> \o txt_merge \o <<"x">>

(***************************************************************************)
(* Properties of the command line dispatcher.                              *)
(***************************************************************************)
\* the command main() dispatches on, and the arguments after it
TopCmd == argv_of(cli_argv)[1]
TopArgs == Tail(argv_of(cli_argv))
\* the branch _run entered for that command, and what it did there
TopBranch == cli_events[1][2]
TopSteps == Tail(cli_events)
StepKinds == {cli_events[i][1] : i \in 1..Len(cli_events)}

\* the branch the documented resolution order gives a command
DocumentedBranch(cmd) ==
    IF cmd \in ScriptsMethods THEN "method"
    ELSE IF cmd \in Range(CmdsMembers) THEN "alias"
    ELSE IF cmd \in {"-v", "--version"} THEN "version"
    ELSE "help"

\* C3: for every command name exactly one branch is taken, chosen in the
\* order scripts method, alias-table entry, -v/--version, help fallback;
\* a shell command is executed for the name if and only if the name is not
\* a scripts method and is an entry of the alias table (jup, console, repl).
C3_BranchByPriority ==
    cli_done =>
        /\ TopBranch = DocumentedBranch(TopCmd)
        /\ (TopBranch = "alias" /\ "shell" \in StepKinds)
              <=> (TopCmd \notin ScriptsMethods /\ TopCmd \in Range(CmdsMembers))

\* C4: for every command name that is neither a scripts command, nor an
\* alias-table entry, nor -v/--version, the dispatcher falls back to help,
\* looks up the command name followed by the remaining arguments, and
\* completes without raising.
C4_FallbackLooksUpCommand ==
    cli_done /\ DocumentedBranch(TopCmd) = "help" =>
        /\ TopBranch = "help"
        /\ TopSteps = help(<<TopCmd>> \o TopArgs).events
        /\ cli_raised = "none"

\* C5: in the test command the coverage-report step and the open-report
\* step run if and only if the exit code of the test run is 0 and --no-open
\* is not among the arguments; when they run, the order is test run, report,
\* open; with a non-zero exit code the test run is the only step.
C5_ReportOnlyAfterGreenRun ==
    cli_done /\ TopCmd = "test" =>
        /\ cli_raised = "none"
        /\ TopSteps[1] = Shell("pytest --cov")
        /\ \A i \in 2..Len(TopSteps) : TopSteps[i][1] = "run"
        /\ (\E i \in 1..Len(TopSteps) : TopSteps[i][3] = <<"coverage", "html">>)
              <=> (cli_host.returncode = 0 /\ "--no-open" \notin Range(TopArgs))
        /\ (\E i \in 1..Len(TopSteps) : TopSteps[i][2] \in {"xdg-open", "explorer"})
              <=> (cli_host.returncode = 0 /\ "--no-open" \notin Range(TopArgs))
        /\ \A i, j \in 1..Len(TopSteps) :
              TopSteps[i][3] = <<"coverage", "html">>
              /\ TopSteps[j][2] \in {"xdg-open", "explorer"} => 1 < i /\ i < j
        /\ cli_host.returncode # 0 => Len(TopSteps) = 1

\* C5 witness: a test run that exited with 0, without --no-open but with
\* another argument, was followed by the report and the opener.
C5_Witness ==
    /\ cli_done
    /\ TopCmd = "test"
    /\ TopArgs = <<"foo">>
    /\ cli_host.returncode = 0
    /\ Len(TopSteps) = 3
    /\ TopSteps[3][2] = "xdg-open"

\* the commands that dispatch on a sub-action
OneLevelCmds == {"encoder", "enc", "vocoder", "voc", "vocode"}
TwoLevelCmds == {"synthesizer", "synth"}
\* the argument list names a sub-action the command knows
Recognized(cmd, args) ==
    /\ args # <<>>
    /\ \/ args[1] = "train"
       \/ args[1] = "preprocess" /\ cmd \in OneLevelCmds
       \/ /\ args[1] = "preprocess"
          /\ cmd \in TwoLevelCmds
          /\ Len(args) >= 2
          /\ args[2] \in {"audio", "embeds"}
\* the argument list ends where a sub-action is expected
SubActionMissing(cmd, args) ==
    \/ args = <<>>
    \/ cmd \in TwoLevelCmds /\ args = <<"preprocess">>

\* C6 as stated: for encoder, synthesizer, vocoder and their aliases, every
\* argument list whose sub-action is not a recognized one, an empty list at
\* either level included, invokes no entry point, logs nothing and raises
\* no error.
C6_UnrecognizedIsSilent ==
    cli_done /\ TopCmd \in OneLevelCmds \cup TwoLevelCmds /\ ~Recognized(TopCmd, TopArgs) =>
        /\ TopSteps = <<>>
        /\ cli_raised = "none"

\* C6 as amended: such an argument list invokes no entry point and logs
\* nothing; it raises no error when it names an unrecognized sub-action,
\* and a TypeError when it ends where a sub-action is expected.
C6_UnrecognizedSilentMissingRaises ==
    cli_done /\ TopCmd \in OneLevelCmds \cup TwoLevelCmds /\ ~Recognized(TopCmd, TopArgs) =>
        /\ TopSteps = <<>>
        /\ cli_raised = IF SubActionMissing(TopCmd, TopArgs) THEN "TypeError" ELSE "none"

\* C6 witness: synth preprocess, with nothing after it, raised a TypeError
\* and did nothing else.
C6_Witness ==
    /\ cli_done
    /\ cli_argv = <<"synth", "preprocess">>
    /\ cli_events = <<Branch("method", "synth")>>
    /\ cli_raised = "TypeError"

\* C6 witness: an unrecognized sub-action of the encoder did nothing.
C6_WitnessSilent ==
    /\ cli_done
    /\ cli_argv = <<"enc", "foo", "train">>
    /\ cli_events = <<Branch("method", "enc")>>
    /\ cli_raised = "none"

\* the public methods of the scripts object, and what help printed
C16_PublicMethods == {m \in Range(ScriptsDir) : SubSeq(m, 1, 1) # "_"}
C16_Catalog == TopSteps[1][3][1]
C16_AliasTable ==
    [i \in 1..Len(CmdsMembers) |->
        <<CmdsMembers[i], JoinWords(getattr_Cmds(CmdsMembers[i]).value)>>]
C16_WantsCatalog == TopArgs = <<>> \/ (Len(TopArgs[1]) >= 2 /\ SubSeq(TopArgs[1], 1, 2) = "--")

\* what help prints for one argument that names a scripts method or, when
\* it names none, an alias
C16_Lookup ==
    IF TopArgs[1] \in C16_PublicMethods
    THEN TopSteps = <<<<"print", "doc", <<TopArgs[1]>>>>>>
    ELSE TopArgs[1] \in Range(CmdsMembers) =>
            TopSteps = <<<<"print", "alias",
                           <<JoinWords(getattr_Cmds(TopArgs[1]).value)>>>>>>

\* help printed the catalog, with these names among its commands
C16_CatalogWith(methods) ==
    /\ cli_raised = "none"
    /\ Len(TopSteps) = 1
    /\ TopSteps[1][2] = "catalog"
    /\ methods \subseteq {C16_Catalog.commands[i][1] : i \in 1..Len(C16_Catalog.commands)}
    /\ C16_Catalog.aliases = C16_AliasTable

\* C16 as stated: help with no argument, or with an argument that begins
\* with "--", prints the full catalog, which holds the name of every public
\* method of the scripts object and the rendering of the alias table; with
\* an argument that names a scripts method it prints the description of the
\* method; with one that names an alias and no scripts method, the resolved
\* shell command.
C16_HelpLookupEveryMethod ==
    (cli_done /\ TopCmd = "help") =>
        IF C16_WantsCatalog THEN C16_CatalogWith(C16_PublicMethods) ELSE C16_Lookup

\* C16, amended: the catalog holds the name of every public method of the
\* scripts object but get_help, and the rendering of the alias table; the
\* rest as stated.
C16_HelpLookup ==
    (cli_done /\ TopCmd = "help") =>
        IF C16_WantsCatalog THEN C16_CatalogWith(C16_PublicMethods \ {"get_help"})
        ELSE C16_Lookup

\* C16 witness: memic help --no-open printed the catalog.
C16_Witness ==
    /\ cli_done
    /\ cli_argv = <<"help", "--no-open">>
    /\ cli_raised = "none"
    /\ TopSteps[1][2] = "catalog"
    /\ Len(C16_Catalog.commands) = 13
    /\ Len(C16_Catalog.aliases) = 3

\* the entry points an invocation loaded, in order
C21_Loaded == SelectSeq(cli_events, LAMBDA ev : ev[1] = "main")

\* the entry point a command and the words after it select, or none
RECURSIVE C21_Selected(_, _)
C21_Selected(cmd, args) ==
    CASE cmd = "toolbox" -> <<"demo_toolbox">>
      [] cmd = "cli" -> <<"demo_cli">>
      [] cmd \in {"encoder", "enc"} /\ args # <<>> /\ args[1] \in {"train", "preprocess"} ->
            <<"encoder_" \o args[1]>>
      [] cmd \in {"vocoder", "voc", "vocode"} /\ args # <<>>
         /\ args[1] \in {"train", "preprocess"} ->
            <<"vocoder_" \o args[1]>>
      [] cmd \in {"synthesizer", "synth"} /\ args # <<>> /\ args[1] = "train" ->
            <<"synthesizer_train">>
      [] cmd \in {"synthesizer", "synth"} /\ Len(args) >= 2 /\ args[1] = "preprocess"
         /\ args[2] \in {"audio", "embeds"} ->
            <<"synthesizer_preprocess_" \o args[2]>>
      [] cmd = "_synthesizer_preprocess" /\ args # <<>> /\ args[1] \in {"audio", "embeds"} ->
            <<"synthesizer_preprocess_" \o args[1]>>
      [] cmd \in {"_run", "__call__"} /\ args # <<>> -> C21_Selected(args[1], Tail(args))
      [] OTHER -> <<>>

\* C21: an invocation loads at most one entry point of the pipeline or the
\* toolbox, and only the one its command and sub-action select; help, alias,
\* version and fallback invocations and unrecognized sub-actions load none.
C21_LoadsOnlyTheSelected ==
    cli_done =>
        /\ Len(C21_Loaded) <= 1
        /\ [i \in 1..Len(C21_Loaded) |-> C21_Loaded[i][2]] = C21_Selected(TopCmd, TopArgs)
        /\ TopBranch # "method" \/ TopCmd \in {"help", "get_help", "fix", "fmt", "test"} =>
              C21_Loaded = <<>>

\* C21 witness: synth preprocess embeds loaded the embeds entry point and
\* nothing else.
C21_Witness ==
    /\ cli_done
    /\ cli_argv = <<"synth", "preprocess", "embeds">>
    /\ C21_Loaded = <<Entered("synthesizer_preprocess_embeds", <<>>)>>

\* the lines of the listing git_config read, and the key and the value of a
\* line: the text before its first "=" and the text after it
C29_Lines == SplitLines(git_log_input)
C29_Key(line) == SubSeq(line, 1, FindFirst(line, <<"=">>) - 1)
C29_Value(line) == SubSeq(line, FindFirst(line, <<"=">>) + 1, Len(line))

\* C29: git_config splits every key=value line of the listing on its first
\* "=" only: for every line, also one whose value contains a "=", the key is
\* the text before the first "=" and the value all the text after it (the
\* last line of a key counts), and no error is raised.
C29_SplitsOnFirstEquals ==
    git_op = "git_config" /\ git_calls[1].raised = "none" =>
        /\ git_raised = "none"
        /\ Len(git_info) = Cardinality({C29_Key(C29_Lines[i]) : i \in 1..Len(C29_Lines)})
        /\ \A i \in 1..Len(C29_Lines) :
              (\A j \in (i + 1)..Len(C29_Lines) : C29_Key(C29_Lines[j]) # C29_Key(C29_Lines[i]))
                  => \E n \in 1..Len(git_info) :
                        git_info[n] = <<C29_Key(C29_Lines[i]), C29_Value(C29_Lines[i])>>

(***************************************************************************)
(* Properties of the record name.                                          *)
(***************************************************************************)
\* the text has the form <user>@rec<digits>
HasRecordForm(text, user) ==
    /\ StartsWith(text, user \o Chars("@rec"))
    /\ \A i \in (Len(user) + 5)..Len(text) : IsDigit(text[i])

\* the entry is a file named <user>@rec<digits>.wav
IsRecordingOf(node, user) ==
    /\ ~node.dir
    /\ EndsWith(node.name, txt_wav)
    /\ HasRecordForm(SubSeq(node.name, 1, Len(node.name) - Len(txt_wav)), user)

RecordingsOf(directory, user) ==
    Cardinality({i \in 1..Len(directory.entries) : IsRecordingOf(directory.entries[i], user)})

\* two digits below 10, the plain number from 10 upward
PaddedNumber(n) == IF n < 10 THEN <<"0", Digits[n + 1]>> ELSE str_int(n)

\* a call of check_filename for which a datasets root is set, the directory
\* of the user exists and the record name has the form <user>@rec<digits>
C10_Case ==
    /\ ui_call' = <<"check_filename">>
    /\ datasets_root # PyNone
    /\ Resolve(fs', <<user_name_input>>).exists
    /\ HasRecordForm(record_name_input, user_name_input)

\* C10: when a datasets root is set, the directory of the user exists and
\* the record name field has the form <user>@rec<digits>, check_filename
\* sets the field to <user>@rec<k+1>, k being the number of files named
\* <user>@rec<digits>.wav in that directory, with a leading zero below 10
\* and none from 10 upward.
C10_NextRecordName ==
    [][C10_Case =>
          record_name_input' =
              user_name_input \o Chars("@rec")
              \o PaddedNumber(RecordingsOf(Resolve(fs', <<user_name_input>>),
                                           user_name_input) + 1)]_vars


(***************************************************************************)
(* Properties of the dataset browser.                                      *)
(***************************************************************************)
\* populate_browser ran last, at level 0, and had nothing to browse: no
\* datasets root, or a root without any of the recognized datasets
C11_Case ==
    /\ ui_call[1] = "populate_browser"
    /\ ui_call[2] = "0"
    /\ \/ datasets_root = PyNone
       \/ existing_datasets(fs, ui_call[3]) = <<>>

\* C11: when populate_browser at level 0 is given no datasets root, or a
\* root under which none of the recognized dataset names exists, the call
\* returns without raising, the three selectors, the three random buttons
\* and the load button end disabled, and the warning is the last line of
\* the log and was printed to the error stream.
C11_NothingToBrowseDisables ==
    C11_Case =>
        /\ ui_raised = "none"
        /\ dataset_box.disabled /\ speaker_box.disabled /\ utterance_box.disabled
        /\ {"random_utterance_button", "random_speaker_button", "random_dataset_button",
            "browser_load_button"} \subseteq disabled_widgets
        /\ logs # <<>>
        /\ logs[Len(logs)] \in {msg_no_root, msg_no_datasets(RootPath)}
        /\ Len(stderr) = 1

\* what follows <user>@rec in a record name that begins with it
C30_Suffix(user, name) == SubSeq(name, Len(user) + 5, Len(name))
\* the record name has the form <user>@rec<digits>
C30_HasForm(user, name) ==
    /\ Len(name) >= Len(user) + 4
    /\ SubSeq(name, 1, Len(user) + 4) = user \o <<"@", "r", "e", "c">>
    /\ \A i \in 1..Len(C30_Suffix(user, name)) : IsDigit(C30_Suffix(user, name)[i])

\* C30: when the user name field changes and the handler returns, a record
\* name of the form <old user>@rec<digits> has its prefix replaced by the new
\* user name and keeps its digits as they were; a record name that does not
\* have that form is left unchanged.
C30_Step ==
    /\ ui_call' = <<"user_name_input_changed">>
    /\ handler_calls' = handler_calls + 1
    /\ ui_raised' = "none"
    => record_name_input' =
          IF C30_HasForm(user_name_input, record_name_input)
          THEN user_name_input' \o <<"@", "r", "e", "c">>
               \o C30_Suffix(user_name_input, record_name_input)
          ELSE record_name_input

C30_PrefixFollowsUser == [][C30_Step]_vars

\* the part of C30 that concerns record names that do not have the form
C30_OthersUnchanged ==
    [][/\ ui_call' = <<"user_name_input_changed">>
       /\ handler_calls' = handler_calls + 1
       /\ ui_raised' = "none"
       /\ ~C30_HasForm(user_name_input, record_name_input)
       => record_name_input' = record_name_input]_vars

(***************************************************************************)
(* Properties of a selector.                                               *)
(***************************************************************************)
\* str(item[0]) of each item given
C31_Texts(entries) == [i \in 1..Len(entries) |-> as_list(entries[i])[1]]

\* C31: after repopulate_box the box holds exactly the given items in order,
\* it is disabled if and only if the list is empty, for a list that is not
\* empty the current index is 0 (not random) or within 0..len-1 (random), the
\* signals of the box are not blocked any more, and no call of the slot was
\* made while the box was filled.
C31_Repopulated ==
    box_call.op = "repopulate_box" =>
        /\ combo_box.items = C31_Texts(box_call.entries)
        /\ combo_box.disabled <=> (box_call.entries = <<>>)
        /\ box_call.entries # <<>> =>
              IF box_call.random
              THEN combo_box.index \in 0..(Len(box_call.entries) - 1)
              ELSE combo_box.index = 0
        /\ ~combo_box.blocked
        /\ slot_calls = <<>>

\* a box was filled at random with two items, one with data joined to it,
\* and the second one was drawn
C31_Witness ==
    /\ box_call.op = "repopulate_box"
    /\ box_call.random
    /\ Len(box_call.entries) = 2
    /\ box_call.entries[1].tuple
    /\ combo_box.index = 1
    /\ combo_box.data[1] # <<>>

\* the selector of the browser is filled the same way
C31_SameAsBrowser ==
    box_call.op = "repopulate_box" =>
        [items |-> combo_box.items, index |-> combo_box.index,
         disabled |-> combo_box.disabled, blocked |-> combo_box.blocked]
        = repopulate_box(C31_Texts(box_call.entries), box_call.random, box_call.drawn)

(***************************************************************************)
(* Properties of the dataset browser.                                      *)
(***************************************************************************)
\* populate_browser was called at this level
C32_Called(level) ==
    /\ ui_call'[1] = "populate_browser"
    /\ ui_call'[2] = level
    /\ handler_calls' = handler_calls + 1

\* the items and the selection of a box
C32_Shown(box) == <<box.items, box.index>>

\* the box was filled with these items: it shows them, one of them is
\* selected, and it is disabled exactly when there is none
C32_Derived(box, entries) ==
    /\ box.items = entries
    /\ box.disabled <=> (entries = <<>>)
    /\ IF entries = <<>> THEN box.index = -1 ELSE box.index \in 0..(Len(entries) - 1)

\* the speakers of the dataset selected after the call
C32_Speakers == stems_of_dirs(Resolve(fs', <<currentText(dataset_box')>>).entries)
\* the utterances of the dataset and the speaker selected after the call
C32_Utterances ==
    utterances_under(Resolve(fs', <<currentText(dataset_box'), currentText(speaker_box')>>))

\* the controller passes the root the browser was filled from before
C32_SameRoot == datasets_root # PyNone /\ datasets_root' = datasets_root

C32_Step ==
    /\ C32_Called("1") /\ C32_SameRoot =>
          /\ C32_Shown(dataset_box') = C32_Shown(dataset_box)
          /\ C32_Derived(speaker_box', C32_Speakers)
          /\ C32_Derived(utterance_box', C32_Utterances)
    /\ C32_Called("2") /\ C32_SameRoot =>
          /\ C32_Shown(dataset_box') = C32_Shown(dataset_box)
          /\ C32_Shown(speaker_box') = C32_Shown(speaker_box)
          /\ C32_Derived(utterance_box', C32_Utterances)
    /\ C32_Called("0") /\ datasets_root' # PyNone
       /\ existing_datasets(fs', ui_call'[3]) # <<>> =>
          /\ C32_Derived(dataset_box', existing_datasets(fs', ui_call'[3]))
          /\ C32_Derived(speaker_box', C32_Speakers)
          /\ C32_Derived(utterance_box', C32_Utterances)

\* C32: populate_browser cascades downward only.  Called at level 1 (with
\* the root the browser was filled from) it leaves the items and the
\* selection of the dataset selector unchanged and derives the speaker and
\* utterance selectors again from the selected dataset; called at level 2 it
\* leaves the dataset and speaker selectors unchanged and derives only the
\* utterance selector again; called at level 0 with at least one recognized
\* dataset under the root it derives all three again.
C32_CascadesDownward == [][C32_Step]_vars

\* the browser was filled at level 2 while the second speaker was selected:
\* the speaker stays selected, and no utterance is found under its name (the
\* directory is s.2, the selector shows the stem s)
C32_Witness ==
    /\ ui_call[1] = "populate_browser"
    /\ ui_call[2] = "2"
    /\ ui_raised = "none"
    /\ dataset_box.index = 0
    /\ speaker_box.index = 1
    /\ speaker_box.items[2] = Chars("s")
    /\ utterance_box.items = <<>>
    /\ utterance_box.disabled

(***************************************************************************)
(* Properties of the log buffer of the constructed window.                 *)
(***************************************************************************)
\* C33: once the window is constructed the log buffer holds exactly
\* max_log_lines (5) lines in every reachable state, whatever log calls,
\* resets, recordings and playbacks follow; so no log call in append or
\* overwrite mode finds the buffer empty and fails.
C33_AlwaysFiveLines ==
    /\ Len(logs) = max_log_lines
    /\ ui_raised # "IndexError"
    /\ ui_call[1] = "log" => ui_raised = "none"

\* the last line was overwritten after two handlers, one of them a playback,
\* had run and a reset had blanked the first line
C33_Witness ==
    /\ ui_call = <<"log", "overwrite">>
    /\ panel_calls = MaxLogSteps
    /\ sd_calls # <<>>
    /\ logs[max_log_lines] = "b"
    /\ logs[1] = ""

(***************************************************************************)
(* Properties of the panels.                                               *)
(***************************************************************************)
\* draw_umap_projections ran last, on the working set it was given
C12_Utterances == IF ui_call[1] = "draw_umap_projections" THEN ui_call[2] ELSE <<>>
C12_Speakers == {C12_Utterances[i].speaker_name : i \in 1..Len(C12_Utterances)}

\* C12: after draw_umap_projections on n utterances: for n < 4 nothing is
\* projected or plotted and the view shows the instruction with the number
\* 4 - n; for n >= 4 the call returns with a projection computed with
\* ceil(sqrt(n)) neighbours, one point per utterance (a cross when the name
\* of the utterance contains "_gen_", a circle otherwise) and one legend
\* entry per distinct speaker name.
C12_ProjectionView ==
    ui_call[1] = "draw_umap_projections" =>
        LET n == Len(C12_Utterances)
        IN  IF n < 4
            THEN /\ umap_ax.n_neighbors = 0
                 /\ umap_ax.points = <<>>
                 /\ umap_ax.text = "Add " \o ToStr(str_int(4 - n))
                                   \o " more points to\ngenerate the projections"
            ELSE /\ ui_raised = "none"
                 /\ umap_ax.n_neighbors * umap_ax.n_neighbors >= n
                 /\ (umap_ax.n_neighbors - 1) * (umap_ax.n_neighbors - 1) < n
                 /\ Len(umap_ax.points) = n
                 /\ \A i \in 1..n :
                       umap_ax.points[i].marker =
                           IF \E j \in 1..(Len(C12_Utterances[i].name) - 4) :
                                 SubSeq(C12_Utterances[i].name, j, j + 4) = Chars("_gen_")
                           THEN "x" ELSE "o"
                 /\ umap_ax.legend # PyNone
                 /\ Len(umap_ax.legend) = Cardinality(C12_Speakers)
                 /\ Range(umap_ax.legend) = C12_Speakers

\* the files that save_audio_file wrote or replaced in a step
C13_Written == {f \in disk' : f \notin disk}

\* the name of the chosen path has an extension: its last dot is neither
\* its first nor its last character
C13_HasExtension(fpath) ==
    LET parts == Split(fpath, <<"/">>)
        name == parts[Len(parts)]
    IN  \E i \in 2..(Len(name) - 1) :
            name[i] = "." /\ \A j \in (i + 1)..Len(name) : name[j] # "."

\* C13: one call of save_audio_file writes at most one file and leaves the
\* other files alone: nothing when the dialog was cancelled (empty path);
\* the waveform at the chosen path followed by ".wav" when the path has no
\* file extension; the waveform at exactly the chosen path when it has one.
C13_Step ==
    ui_call'[1] = "save_audio_file" =>
        LET fpath == ui_call'[2]
            target == IF C13_HasExtension(fpath) THEN fpath ELSE fpath \o Chars(".wav")
        IN  /\ Cardinality(C13_Written) <= 1
            /\ \A f \in disk : f \in disk' \/ \E g \in C13_Written : g.path = f.path
            /\ IF fpath = <<>> THEN disk' = disk
               ELSE /\ \E f \in disk' : f.path = target /\ f.wav = ui_call'[3]
                    /\ \A f \in C13_Written : f.path = target
C13_ExportWritesOneFile == [][C13_Step]_vars

\* C13 witness: a file was exported to a path without an extension, below a
\* directory with a dot in its name, and then a second one.
C13_Witness ==
    /\ ui_call[1] = "save_audio_file"
    /\ \E f \in disk : f.path = Chars("/tmp/v1.2/out.wav")
    /\ Cardinality(disk) = 2

\* the models directory populate_models was given holds a file of this
\* name one level down
C17_Holds(filename) ==
    \E i \in 1..Len(ui_call[2].entries) :
        /\ ui_call[2].entries[i].dir
        /\ \E j \in 1..Len(ui_call[2].entries[i].entries) :
              ui_call[2].entries[i].entries[j].name = Chars(filename)

\* C17: populate_models raises exactly when the models directory holds no
\* encoder file or no synthesizer file one level down; when it returns, the
\* vocoder selector is not empty, is enabled, and its last item is the
\* Griffin-Lim option, which has no file behind it.
C17_ModelsOrError ==
    ui_call[1] = "populate_models" =>
        /\ ui_raised # "none" <=> ~C17_Holds("encoder.pt") \/ ~C17_Holds("synthesizer.pt")
        /\ ui_raised = "none" =>
              /\ model_boxes.vocoder.items # <<>>
              /\ ~model_boxes.vocoder.disabled
              /\ model_boxes.vocoder.items[Len(model_boxes.vocoder.items)]
                    = <<Chars("Griffin-Lim"), <<"None">>>>

\* C17 witness: the models were found without any vocoder file, and the
\* vocoder selector offers the Griffin-Lim option alone.
C17_Witness ==
    /\ ui_call[1] = "populate_models"
    /\ ui_raised = "none"
    /\ ~C17_Holds("vocoder.pt")
    /\ Len(model_boxes.vocoder.items) = 1
    /\ Len(model_boxes.encoder.items) = 2

\* the last three lines of the log
C18_LastLines == SubSeq(logs, Len(logs) - 2, Len(logs))

\* C18: record_one always ends with the record button enabled again; when the
\* device fails, no error escapes, no audio is returned, and the last lines
\* of the log are the duration line, the cause and the reminder about the device.
C18_RecordOneRestores ==
    ui_call[1] = "record_one" =>
        /\ ~record_button.disabled
        /\ ui_call[4] = "missing" =>
              /\ ui_raised = "none"
              /\ returned = <<"None">>
              /\ Len(logs) >= 3
              /\ C18_LastLines =
                    <<"Recording " \o ToStr(str_int(ui_call[3])) \o " seconds of audio",
                      "Could not record anything. Is your recording device enabled?",
                      "Your device must be connected before you start the toolbox.">>

\* C19: after reset_interface the play, generate, synthesize, vocode, replay
\* and export buttons are disabled, the progress bar is at zero with its text
\* hidden, the projection view asks for min_umap_points more points, and the
\* log holds max_log_lines blank lines and nothing else.
C19_AfterReset ==
    ui_call[1] = "reset_interface" =>
        /\ ~play_enabled /\ ~generate_enabled /\ ~synthesize_enabled
        /\ ~vocode_enabled /\ ~replay_enabled /\ ~export_enabled
        /\ loading_bar.value = 0
        /\ ~loading_bar.text_visible
        /\ umap_ax.text = "Add 4 more points to\ngenerate the projections"
        /\ umap_ax.points = <<>>
        /\ logs = [i \in 1..5 |-> ""]

\* C19 witness: the window is reset after register_utterance had enabled the
\* play, generate and synthesize buttons and a failed recording had written
\* to the log.
C19_Witness ==
    /\ ui_call[1] = "reset_interface"
    /\ registered > 0
    /\ record_button.disabled
    /\ ~play_enabled /\ ~generate_enabled /\ ~synthesize_enabled
    /\ logs = [i \in 1..5 |-> ""]

\* C20: no callback starts while another one is still executing: at most one
\* callback has started and not returned, also while log, set_loading and the
\* wait loop of record_one are inside app.processEvents().
C20_OneCallbackAtATime == Len(call_stack) <= 1

\* this step is the first call of draw_umap_projections with min_umap_points
\* utterances or more
C22_FirstProjection ==
    /\ ~umap_hot
    /\ ui_call'[1] = "draw_umap_projections"
    /\ Len(ui_call'[2]) >= 4

\* this step logs the notice
C22_NoticeLogged ==
    logs' = log_lines(logs, "Drawing UMAP projections for the first time, this will take a few seconds.",
                      "newline")

\* C22: over the calls of draw_umap_projections and reset_interface on one
\* window, the notice is logged exactly at the first call with 4 utterances
\* or more and at no other; umap_hot starts false, becomes true at that call
\* and never becomes false again, not even at a reset.
C22_Step ==
    /\ umap_hot => umap_hot'
    /\ umap_hot' # umap_hot <=> C22_FirstProjection
    /\ C22_NoticeLogged <=> C22_FirstProjection

C22_NoticeOnce == [][C22_Step]_vars

\* the last step drew into the slot of the current utterance
C23_DrewCurrent(call) == call[1] \in {"draw_spec", "draw_utterance"} /\ call[3] = "current"

\* C23: after any sequence of draw_spec, draw_utterance, register_utterance
\* and reset_interface calls the vocode button is enabled exactly when the
\* last draw into the generated spectrogram slot supplied data and no reset
\* came after it, that is when the generated slot holds a spectrogram; a
\* draw into the current slot never changes the vocode button.
C23_VocodeFollowsGenerated ==
    /\ [](vocode_enabled <=> panels.generated.spec # <<"None">>)
    /\ [][C23_DrewCurrent(ui_call') => vocode_enabled' = vocode_enabled]_vars

\* C23 witness: the current slot was cleared while the generated slot held a
\* spectrogram, and the vocode button is still enabled.
C23_Witness ==
    /\ ui_call = <<"draw_spec", <<"None">>, "current">>
    /\ panels.generated.spec = <<"mel">>
    /\ panels.current.spec = <<"None">>
    /\ vocode_enabled

\* C24: register_utterance, from any state, leaves the play, generate and
\* synthesize buttons enabled, and leaves the vocode, replay and export
\* buttons, the log and the progress bar as they were.
C24_Step ==
    registered' = registered + 1 =>
        /\ play_enabled' /\ generate_enabled' /\ synthesize_enabled'
        /\ UNCHANGED <<vocode_enabled, replay_enabled, export_enabled, logs, log_window,
                       loading_bar>>

C24_RegisterEnables == [][C24_Step]_vars

\* C24 witness: an utterance was registered after a reset had disabled the
\* three buttons, with the other buttons enabled and the progress bar moved.
C24_Witness ==
    /\ ui_call = <<"register_utterance">>
    /\ registered = 1
    /\ play_enabled /\ generate_enabled /\ synthesize_enabled
    /\ vocode_enabled /\ replay_enabled /\ export_enabled
    /\ loading_bar.value > 0

\* the first listed device that accepts the sample rate as input, or None
C25_Inputs == {i \in 1..Len(sd_devices) : sd_devices[i].input}
C25_FirstInput ==
    IF C25_Inputs = {} THEN <<"None">>
    ELSE sd_devices[CHOOSE i \in C25_Inputs : \A j \in C25_Inputs : i <= j].name

\* the item the selector shows
C25_Selected == audio_out_devices_cb.items[audio_out_devices_cb.index + 1]

\* C25: after setup_audio_devices and any changes of the output selector,
\* sd.default.device is the pair of the first listed device that is a valid
\* input (or None) and the selected output device (None when the selector
\* shows the None entry); when no device is a valid output the selector
\* holds the None entry alone and is disabled; the item picked last is the
\* active output device.
C25_DefaultDevicePair ==
    audio_in_device # <<"unset">> =>
        /\ sd_default_device[1] = C25_FirstInput
        /\ sd_default_device[2] =
              IF C25_Selected = Chars("None") THEN <<"None">> ELSE C25_Selected
        /\ (\A i \in 1..Len(sd_devices) : ~sd_devices[i].output) =>
              /\ audio_out_devices_cb.items = <<Chars("None")>>
              /\ audio_out_devices_cb.disabled
        /\ ui_call[1] = "select_output_device" =>
              sd_default_device[2] = audio_out_devices_cb.items[ui_call[2] + 1]

\* C25 witness: the second input is not the one chosen, and the operator
\* picked the second output device.
C25_Witness ==
    /\ ui_call = <<"select_output_device", 1>>
    /\ Cardinality(C25_Inputs) = 2
    /\ sd_default_device = <<Chars("mic"), Chars("spk")>>
    /\ audio_out_devices_cb.items = <<Chars("mic"), Chars("spk")>>

\* C25 witness: no device is a valid output.
C25_WitnessNoOutput ==
    /\ ui_call = <<"setup_audio_devices">>
    /\ Len(sd_devices) = 2
    /\ sd_default_device = <<Chars("spk"), <<"None">>>>
    /\ audio_out_devices_cb.disabled

\* the last max_log_lines lines
C26_Kept(lines) ==
    IF Len(lines) <= 5 THEN lines ELSE SubSeq(lines, Len(lines) - 4, Len(lines))

\* the step is a call of play
C26_Played == ui_call'[1] = "play" /\ panel_calls' = panel_calls + 1

\* C26: play stops the playback in progress before it starts the new one; a
\* failure of either step does not escape, and logs exactly the playback
\* error and then the reminder about the device; no button changes.
C26_Step ==
    C26_Played =>
        /\ sd_calls'[1] = <<"stop">>
        /\ \A i \in 1..Len(sd_calls') : sd_calls'[i][1] = "play" => i = 2
        /\ ui_raised' = "none"
        /\ IF ui_call'[3] = "raises" \/ ui_call'[4] = "raises"
           THEN /\ logs' = C26_Kept(logs \o
                      <<"Error in audio playback. Try selecting a different audio output device.",
                        "Your device must be connected before you start the toolbox.">>)
                /\ sd_playing' # ui_call'[2] \/ sd_playing = ui_call'[2]
           ELSE /\ logs' = logs
                /\ sd_calls' = <<<<"stop">>, <<"play", ui_call'[2]>>>>
                /\ sd_playing' = ui_call'[2]
        /\ UNCHANGED <<play_enabled, generate_enabled, synthesize_enabled, vocode_enabled,
                       replay_enabled, export_enabled, record_button>>

C26_PlayNeverEscapes == [][C26_Step]_vars

\* C26 witness: a playback failed to start when the buttons were enabled:
\* stop was called first, nothing is played, and the two lines are the last
\* of the log.
C26_Witness ==
    /\ ui_call = <<"play", "wav2", "works", "raises">>
    /\ sd_calls = <<<<"stop">>, <<"play", "wav2">>>>
    /\ sd_playing = "nothing"
    /\ play_enabled /\ vocode_enabled
    /\ logs[5] = "Your device must be connected before you start the toolbox."
    /\ logs[4] = "Error in audio playback. Try selecting a different audio output device."
    /\ logs[3] = ""

(***************************************************************************)
(* Properties of the reflective enumeration.                               *)
(***************************************************************************)
\* the values of the attributes of the class whose names do not start
\* with an underscore, in declaration order
C14_Yielded ==
    LET public == SelectSeq(enum_cls.members, LAMBDA a : a.key[1] # "_")
    IN  [i \in 1..Len(public) |-> public[i].value]

\* C14: for every enumeration class, iteration yields the values of exactly
\* the attributes whose names do not start with an underscore, in
\* declaration order; len() is the number of values iteration yields; a
\* value is contained exactly when iteration yields an equal value; a class
\* without members has length 0 and an empty iteration.
C14_IterLenContainsAgree ==
    /\ enum_call = <<"__iter__">> => enum_result = C14_Yielded
    /\ enum_call = <<"__len__">> => enum_result = Len(C14_Yielded)
    /\ (enum_call # <<>> /\ enum_call[1] = "__contains__") =>
          (enum_result <=> \E i \in 1..Len(C14_Yielded) : C14_Yielded[i] = enum_call[2])


\* the lines of the rendering, counted as splitlines() counts them
C15_Lines == Len(SplitLines(enum_result))

\* the rendering ends with an ellipsis, inside the parentheses or not
C15_EndsWithEllipsis ==
    \/ EndsWith(enum_result, Chars("..."))
    \/ EndsWith(enum_result, Chars("...)"))

\* C15: for every enumeration class, every line width and every requested
\* maximum line count m >= 1 (m = 1 with three members among them), the
\* rendering has at most m lines, and when it is not the rendering without
\* a limit, because members or lines were cut, it ends with an ellipsis.
C15_ReprWithinMaxLines ==
    (enum_call # <<>> /\ enum_call[1] = "repr" /\ enum_call[2] # <<>>) =>
        /\ C15_Lines <= enum_call[2][1]
        /\ enum_result # repr(enum_cls, <<>>, enum_call[3]) => C15_EndsWithEllipsis

\* the members of the class: the attributes that are public and are not
\* classmethods, in declaration order
C27_Members ==
    SelectSeq(enum_cls.members, LAMBDA a : a.key[1] # "_" /\ a.value.kind # "classmethod")

\* C27: for every enumeration class, also one that declares classmethods in
\* its body, keys, values and items have as many entries as the class has
\* members, are in declaration order, and items pairs the name of each
\* member with the value of that member.
C27_ProjectionsAgree ==
    /\ enum_call = <<"keys">> =>
          enum_result = [i \in 1..Len(C27_Members) |-> C27_Members[i].key]
    /\ enum_call = <<"values">> =>
          enum_result = [i \in 1..Len(C27_Members) |-> C27_Members[i].value]
    /\ enum_call = <<"items">> =>
          enum_result = [i \in 1..Len(C27_Members) |->
                            <<C27_Members[i].key, C27_Members[i].value>>]

\* the attributes whose names do not start with an underscore, and the
\* first of them that has the name, or the value
C28_Public == SelectSeq(enum_cls.members, LAMBDA a : a.key[1] # "_")
C28_Named(name) == {i \in 1..Len(C28_Public) : C28_Public[i].key = name}
C28_Valued(value) == {i \in 1..Len(C28_Public) : C28_Public[i].value = value}
C28_First(hits) == CHOOSE i \in hits : \A j \in hits : i <= j

\* C28: indexing by a name returns the value of the member of that name, and
\* None for every name that is not a member, a member being an attribute
\* whose name does not start with an underscore; get_name returns the name of
\* the first declared member whose value equals the argument, and None when
\* there is none.
C28_IndexAndReverseLookup ==
    /\ (enum_call # <<>> /\ enum_call[1] = "__getitem__") =>
          enum_result = IF C28_Named(enum_call[2]) = {} THEN NoneValue
                        ELSE C28_Public[C28_First(C28_Named(enum_call[2]))].value
    /\ (enum_call # <<>> /\ enum_call[1] = "get_name") =>
          enum_result = IF C28_Valued(enum_call[2]) = {} THEN <<"None">>
                        ELSE C28_Public[C28_First(C28_Valued(enum_call[2]))].key

====
